---- MODULE Spec2Model ----
(***************************************************************************)
(* A model of the raw B-tree of raw-btree-rs: the inline arrays, the leaf  *)
(* and internal nodes, the box storage, the rebalancing engine and the     *)
(* public operations of RawBTree.                                          *)
(*                                                                         *)
(* Conventions.  Node handles (S::Node) are positive integers and NoNode   *)
(* stands for Option::None.  An Offset is an integer and Before (-1)       *)
(* stands for Offset(usize::MAX).  Rust slices are 0-based, TLA+ sequences *)
(* 1-based: every index named as in the source is 0-based and is shifted   *)
(* by one only where a sequence is subscripted.  An element is a record    *)
(* [key, value] as the Item<K, V> of the tests, compared on its key.       *)
(***************************************************************************)
EXTENDS Integers, Sequences, FiniteSets, TLC

\* Knuth order of the B-tree.
M == 8

\* Underflow threshold of a node.
UNDERFLOW == M \div 2 - 1

\* ---------------------------------------------------------------- bounds

\* Keys are drawn from 1..MaxKey.
MaxKey == 50

\* The keys of the mixed workload are 1..SmallKey.
SmallKey == 9

\* Values are drawn from 1..MaxVal.
MaxVal == 2

\* The longest run of consecutive keys removed from the middle of a tree.
MaxPick == 3

\* The absent even keys an insertion of the "evens" workload may skip over.
MaxSkip == 1

\* The trees that are drained, picked from and iterated over hold at most
\* SmallKey elements, a multiple of Stride elements, or every key.
Stride == 10

Keys == 1..MaxKey

Values == 1..MaxVal

\* ------------------------------------------------------- options, offsets

NoNode == 0

Before == 0 - 1

NoItem == [key |-> 0, value |-> 0]

NoAddr == [node |-> NoNode, offset |-> Before]

Address(node, offset) == [node |-> node, offset |-> offset]

OffsetIncr(o) == IF o = Before THEN 0 ELSE o + 1

OffsetDecr(o) == IF o = 0 THEN Before ELSE o - 1

\* Ordering of an offset against a usize: Before is less than every usize.
OffsetCmp(o, n) ==
    IF o = Before THEN 0 - 1
    ELSE IF o < n THEN 0 - 1 ELSE IF o = n THEN 0 ELSE 1

\* ------------------------------------------------------------- comparator

\* Item::key_cmp; Item::cmp(a, b) is KeyCmp(a, b.key).
KeyCmp(a, q) == IF a.key < q THEN 0 - 1 ELSE IF a.key = q THEN 0 ELSE 1

\* ------------------------------------------------------------ inline array

ArrayInsertPanics(a, N, i) == i > Len(a) \/ Len(a) >= N

ArrayPushPanics(a, N) == Len(a) >= N

ArrayInsert(a, i, v) == SubSeq(a, 1, i) \o <<v>> \o SubSeq(a, i + 1, Len(a))

ArrayRemove(a, i) == SubSeq(a, 1, i) \o SubSeq(a, i + 2, Len(a))

ArrayPop(a) == SubSeq(a, 1, Len(a) - 1)

\* drain(start..): the part that stays, and the part that is drained.
ArrayDrainKept(a, start) == SubSeq(a, 1, start)

\* A faulty drain that starts one element too far; C5 must not hold with it.
ArrayDrainedSkipsOne(a, start) == SubSeq(a, start + 2, Len(a))

ArrayDrained(a, start) == SubSeq(a, start + 1, Len(a))

ArrayAppend(a, other) == a \o other

\* A faulty search that never reports an equal item; C6 must not hold with
\* it.
RECURSIVE BinarySearchLoopNeverEqual(_, _, _, _, _)
BinarySearchLoopNeverEqual(s, key, i, j, eq) ==
    IF j - i > 1
    THEN LET k == (i + j) \div 2
         IN  IF KeyCmp(s[k + 1], key) > 0
             THEN BinarySearchLoopNeverEqual(s, key, i, k, eq)
             ELSE BinarySearchLoopNeverEqual(s, key, k, j, eq)
    ELSE [some |-> TRUE, i |-> i, eq |-> FALSE, panic |-> FALSE]

RECURSIVE BinarySearchLoop(_, _, _, _, _)
BinarySearchLoop(s, key, i, j, eq) ==
    IF ~eq /\ j - i > 1
    THEN LET k == (i + j) \div 2
             k_ord == KeyCmp(s[k + 1], key)
         IN  IF k_ord > 0
             THEN BinarySearchLoop(s, key, i, k, eq)
             ELSE BinarySearchLoop(s, key, k, j, k_ord = 0)
    ELSE [some |-> TRUE, i |-> i, eq |-> eq, panic |-> FALSE]

\* The slice is indexed at 0 before its emptiness is tested.
BinarySearchMin(s, key) ==
    IF Len(s) = 0
    THEN [some |-> FALSE, i |-> 0, eq |-> FALSE, panic |-> TRUE]
    ELSE LET i_ord == KeyCmp(s[1], key)
         IN  IF i_ord > 0
             THEN [some |-> FALSE, i |-> 0, eq |-> FALSE, panic |-> FALSE]
             ELSE LET j == Len(s) - 1
                      j_ord == KeyCmp(s[j + 1], key)
                  IN  IF j_ord <= 0
                      THEN [some |-> TRUE, i |-> j, eq |-> j_ord = 0,
                            panic |-> FALSE]
                      ELSE BinarySearchLoop(s, key, 0, j, i_ord = 0)

\* ------------------------------------------------------------------ nodes

Leaf(parent, items) ==
    [kind |-> "Leaf", parent |-> parent, items |-> items]

Internal(parent, first_child, other_children) ==
    [kind |-> "Internal", parent |-> parent, first_child |-> first_child,
     other_children |-> other_children]

Branch(item, child) == [item |-> item, child |-> child]

IsLeaf(n) == n.kind = "Leaf"

\* Node::leaf
NodeLeaf(parent, item) == Leaf(parent, <<item>>)

\* A faulty binary node with its two children swapped; C7 must not hold with
\* it.
NodeBinarySwapped(parent, left_id, median, right_id) ==
    Internal(parent, right_id, <<Branch(median, left_id)>>)

\* Node::binary
NodeBinary(parent, left_id, median, right_id) ==
    Internal(parent, left_id, <<Branch(median, right_id)>>)

ItemCount(n) == IF IsLeaf(n) THEN Len(n.items) ELSE Len(n.other_children)

ChildCount(n) == IF IsLeaf(n) THEN 0 ELSE 1 + Len(n.other_children)

\* The items of a node, in order.
NodeItems(n) ==
    IF IsLeaf(n) THEN n.items
    ELSE [i \in 1..Len(n.other_children) |-> n.other_children[i].item]

\* Node::children, as a sequence.
Children(n) ==
    IF IsLeaf(n) THEN <<>>
    ELSE <<n.first_child>> \o
         [i \in 1..Len(n.other_children) |-> n.other_children[i].child]

LeafIsOverflowing(n) == Len(n.items) > M

LeafIsUnderflowing(n) == Len(n.items) < M \div 2 - 1

\* A faulty is_overflowing that lets an internal node fill its array; C38
\* must not hold with it.
InternalIsOverflowingWhenPast(n) == Len(n.other_children) > M

InternalIsOverflowing(n) == Len(n.other_children) >= M

InternalIsUnderflowing(n) == Len(n.other_children) < UNDERFLOW

IsOverflowing(n) ==
    IF IsLeaf(n) THEN LeafIsOverflowing(n) ELSE InternalIsOverflowing(n)

IsUnderflowing(n) ==
    IF IsLeaf(n) THEN LeafIsUnderflowing(n) ELSE InternalIsUnderflowing(n)

\* A faulty balance that never reports an empty node; C10 must not hold with
\* it.
BalanceNeverEmpty(n) ==
    IF IsOverflowing(n) THEN [tag |-> "Overflow", is_empty |-> FALSE]
    ELSE IF IsUnderflowing(n)
         THEN [tag |-> "Underflow", is_empty |-> FALSE]
         ELSE [tag |-> "Balanced", is_empty |-> FALSE]

\* Node::balance: "Balanced", "Overflow", or "Underflow" with its flag.
Balance(n) ==
    IF IsOverflowing(n) THEN [tag |-> "Overflow", is_empty |-> FALSE]
    ELSE IF IsUnderflowing(n)
         THEN [tag |-> "Underflow", is_empty |-> ItemCount(n) = 0]
         ELSE [tag |-> "Balanced", is_empty |-> FALSE]

SetParent(n, p) == [n EXCEPT !.parent = p]

\* Internal::child_index; NoIndex stands for None.
NoIndex == 0 - 1

ChildIndex(n, id) ==
    IF IsLeaf(n) THEN NoIndex
    ELSE IF n.first_child = id THEN 0
    ELSE LET hits == {i \in 1..Len(n.other_children) :
                          n.other_children[i].child = id}
         IN  IF hits = {} THEN NoIndex
             ELSE CHOOSE i \in hits : \A j \in hits : i <= j

\* Internal::child_id_opt; NoNode when there is no such child.
ChildIdOpt(n, index) ==
    IF IsLeaf(n) THEN NoNode
    ELSE IF index = 0 THEN n.first_child
    ELSE IF index >= 1 /\ index <= Len(n.other_children)
         THEN n.other_children[index].child
         ELSE NoNode

\* Internal::child_id
ChildId(n, index) == ChildIdOpt(n, index)

\* Node::item; NoItem when the offset is not occupied.
Item(n, offset) ==
    IF offset >= 0 /\ offset < ItemCount(n)
    THEN NodeItems(n)[offset + 1]
    ELSE NoItem

\* A faulty offset_of whose gap is one position too far to the left; C2 must
\* not hold with it.
OffsetOfFoundGapBefore(n, r) ==
    IF r.panic
    THEN [ok |-> FALSE, offset |-> 0, child |-> NoNode, panic |-> TRUE]
    ELSE IF r.some /\ r.eq
    THEN [ok |-> TRUE, offset |-> r.i, child |-> NoNode, panic |-> FALSE]
    ELSE LET index == IF r.some THEN r.i ELSE 0
         IN  [ok |-> FALSE, offset |-> index,
              child |-> ChildIdOpt(n, index), panic |-> FALSE]

\* Node::offset_of on the result r of binary_search_min: Ok(offset), or
\* Err((index, child)) with child = NoNode in a leaf.
OffsetOfFound(n, r) ==
    IF r.panic
    THEN [ok |-> FALSE, offset |-> 0, child |-> NoNode, panic |-> TRUE]
    ELSE IF r.some /\ r.eq
    THEN [ok |-> TRUE, offset |-> r.i, child |-> NoNode, panic |-> FALSE]
    ELSE LET index == IF r.some THEN r.i + 1 ELSE 0
         IN  [ok |-> FALSE, offset |-> index,
              child |-> ChildIdOpt(n, index), panic |-> FALSE]

\* Node::offset_of
OffsetOf(n, key) == OffsetOfFound(n, BinarySearchMin(NodeItems(n), key))

\* Node::insert: the item, and for an internal node its right child.
NodeInsert(n, offset, item, opt_right_child_id) ==
    IF IsLeaf(n)
    THEN [n EXCEPT !.items = ArrayInsert(@, offset, item)]
    ELSE [n EXCEPT !.other_children =
                       ArrayInsert(@, offset, Branch(item, opt_right_child_id))]

NodeInsertPanics(n, offset, opt_right_child_id) ==
    IF IsLeaf(n)
    THEN offset = Before \/ ArrayInsertPanics(n.items, M + 1, offset)
    ELSE \/ opt_right_child_id = NoNode
         \/ offset = Before
         \/ ArrayInsertPanics(n.other_children, M, offset)

\* A faulty split that takes the item before the middle one as the median;
\* C26 must not hold with it.
LeafSplitBeforeMiddle(n) ==
    LET median_i == (Len(n.items) - 1) \div 2 - 1
        right_items == ArrayDrained(n.items, median_i + 1)
        kept == ArrayDrainKept(n.items, median_i + 1)
        median == kept[Len(kept)]
        items == ArrayPop(kept)
    IN  [left |-> [n EXCEPT !.items = items],
         len |-> Len(items),
         median |-> median,
         right |-> Leaf(n.parent, right_items)]

\* Leaf::split: the leaf that stays, its length, the median, the right leaf.
LeafSplit(n) ==
    LET median_i == (Len(n.items) - 1) \div 2
        right_items == ArrayDrained(n.items, median_i + 1)
        kept == ArrayDrainKept(n.items, median_i + 1)
        median == kept[Len(kept)]
        items == ArrayPop(kept)
    IN  [left |-> [n EXCEPT !.items = items],
         len |-> Len(items),
         median |-> median,
         right |-> Leaf(n.parent, right_items)]

\* Internal::split: the right node's first child is the median's child.
InternalSplit(n) ==
    LET median_i == (Len(n.other_children) - 1) \div 2
        right_other_children == ArrayDrained(n.other_children, median_i + 1)
        kept == ArrayDrainKept(n.other_children, median_i + 1)
        median == kept[Len(kept)]
        other_children == ArrayPop(kept)
    IN  [left |-> [n EXCEPT !.other_children = other_children],
         len |-> Len(other_children),
         median |-> median.item,
         right |-> Internal(n.parent, median.child, right_other_children)]

\* Node::split
NodeSplit(n) == IF IsLeaf(n) THEN LeafSplit(n) ELSE InternalSplit(n)

\* The assertions of split: the node overflows, no side underflows.
NodeSplitPanics(n) ==
    \/ ~IsOverflowing(n)
    \/ IsUnderflowing(NodeSplit(n).left)
    \/ IsUnderflowing(NodeSplit(n).right)

\* Internal::merge: removes the branch of the right node of the pair.
InternalMerge(n, left_index) ==
    LET branch == n.other_children[left_index + 1]
        node == [n EXCEPT !.other_children = ArrayRemove(@, left_index)]
    IN  [node |-> node,
         offset |-> left_index,
         left_id |-> ChildId(node, left_index),
         right_id |-> branch.child,
         separator |-> branch.item,
         balance |-> Balance(node)]

\* A faulty append that drops the separator of a leaf merge; C9 must not
\* hold with it.
NodeAppendDropsSeparator(n, separator, other) ==
    IF IsLeaf(n)
    THEN [node |-> [n EXCEPT !.items = ArrayAppend(@, other.items)],
          offset |-> Len(n.items)]
    ELSE [node |-> [n EXCEPT !.other_children =
                        ArrayAppend(
                            Append(@, Branch(separator, other.first_child)),
                            other.other_children)],
          offset |-> Len(n.other_children)]

\* Node::append: the separator, then the items of the other node.
NodeAppend(n, separator, other) ==
    IF IsLeaf(n)
    THEN [node |-> [n EXCEPT !.items =
                        ArrayAppend(Append(@, separator), other.items)],
          offset |-> Len(n.items)]
    ELSE [node |-> [n EXCEPT !.other_children =
                        ArrayAppend(
                            Append(@, Branch(separator, other.first_child)),
                            other.other_children)],
          offset |-> Len(n.other_children)]

NodeAppendPanics(n, other) ==
    \/ IsLeaf(n) # IsLeaf(other)
    \/ IsLeaf(n) /\ Len(n.items) + 1 + Len(other.items) > M + 1
    \/ ~IsLeaf(n) /\
       Len(n.other_children) + 1 + Len(other.other_children) > M

\* A faulty refusal that lets a leaf of UNDERFLOW items give one away; C1
\* must not hold with it.
LeafWouldUnderflowTooLate(n) == Len(n.items) < M \div 2 - 1

\* Leaf::pop_left / Internal::pop_left refuse with WouldUnderflow.
LeafWouldUnderflow(n) == Len(n.items) < M \div 2

\* A faulty refusal that lets an internal node of UNDERFLOW items give one
\* away; C25 must not hold with it.
InternalWouldUnderflowTooLate(n) == Len(n.other_children) < UNDERFLOW

InternalWouldUnderflow(n) == Len(n.other_children) <= UNDERFLOW

WouldUnderflow(n) ==
    IF IsLeaf(n) THEN LeafWouldUnderflow(n) ELSE InternalWouldUnderflow(n)

\* Node::pop_left: the first item and, for an internal node, the first child.
PopLeft(n) ==
    IF IsLeaf(n)
    THEN [node |-> [n EXCEPT !.items = ArrayRemove(@, 0)],
          item |-> n.items[1], child |-> NoNode]
    ELSE [node |-> [n EXCEPT !.first_child = n.other_children[1].child,
                             !.other_children = ArrayRemove(@, 0)],
          item |-> n.other_children[1].item, child |-> n.first_child]

\* Node::pop_right: the offset returned is the length before the pop.
PopRight(n) ==
    IF IsLeaf(n)
    THEN [node |-> [n EXCEPT !.items = ArrayPop(@)],
          offset |-> Len(n.items),
          item |-> n.items[Len(n.items)], child |-> NoNode]
    ELSE [node |-> [n EXCEPT !.other_children = ArrayPop(@)],
          offset |-> Len(n.other_children),
          item |-> n.other_children[Len(n.other_children)].item,
          child |-> n.other_children[Len(n.other_children)].child]

\* Node::push_left: for an internal node the child becomes the first child.
PushLeft(n, item, opt_child_id) ==
    IF IsLeaf(n)
    THEN [n EXCEPT !.items = ArrayInsert(@, 0, item)]
    ELSE [n EXCEPT !.first_child = opt_child_id,
                   !.other_children =
                       ArrayInsert(@, 0, Branch(item, n.first_child))]

\* Node::push_right, with the offset of the pushed item.
PushRight(n, item, opt_child_id) ==
    IF IsLeaf(n)
    THEN [node |-> [n EXCEPT !.items = Append(@, item)],
          offset |-> Len(n.items)]
    ELSE [node |-> [n EXCEPT !.other_children =
                                 Append(@, Branch(item, opt_child_id))],
          offset |-> Len(n.other_children)]

PushPanics(n, opt_child_id) ==
    IF IsLeaf(n) THEN ArrayPushPanics(n.items, M + 1)
    ELSE opt_child_id = NoNode \/ ArrayPushPanics(n.other_children, M)

\* A faulty write that replaces the first item of the node, whatever the
\* offset; C19 must not hold with it.
SetItemFirst(n, offset, item) ==
    IF IsLeaf(n)
    THEN [n EXCEPT !.items[1] = item]
    ELSE [n EXCEPT !.other_children[1].item = item]

\* Node::item_mut followed by a write: the item at the offset is replaced.
SetItem(n, offset, item) ==
    IF IsLeaf(n)
    THEN [n EXCEPT !.items[offset + 1] = item]
    ELSE [n EXCEPT !.other_children[offset + 1].item = item]

\* A faulty leaf_remove that takes the first item out of the leaf, whatever
\* the offset; C11 must not hold with it.
LeafRemoveTakesFirst(n, offset) ==
    IF OffsetCmp(offset, ItemCount(n)) >= 0 \/ offset = Before
    THEN [tag |-> "none", node |-> n, item |-> NoItem, child |-> NoNode]
    ELSE IF IsLeaf(n)
    THEN [tag |-> "item",
          node |-> [n EXCEPT !.items = ArrayRemove(@, 0)],
          item |-> n.items[offset + 1], child |-> NoNode]
    ELSE [tag |-> "child", node |-> n, item |-> NoItem,
          child |-> ChildId(n, offset)]

\* Node::leaf_remove: "item" with the leaf after the removal, "child" with
\* the child on the left of the item of an internal node, or "none".
LeafRemove(n, offset) ==
    IF OffsetCmp(offset, ItemCount(n)) >= 0 \/ offset = Before
    THEN [tag |-> "none", node |-> n, item |-> NoItem, child |-> NoNode]
    ELSE IF IsLeaf(n)
    THEN [tag |-> "item",
          node |-> [n EXCEPT !.items = ArrayRemove(@, offset)],
          item |-> n.items[offset + 1], child |-> NoNode]
    ELSE [tag |-> "child", node |-> n, item |-> NoItem,
          child |-> ChildId(n, offset)]

\* ---------------------------------------------------------------- storage

\* BoxStorage::allocate_node returns a handle that names no allocated node.
FreshId(nodes) ==
    CHOOSE id \in 1..(Cardinality(DOMAIN nodes) + 1) : id \notin DOMAIN nodes

AllocateNode(nodes, id, node) ==
    [x \in DOMAIN nodes \cup {id} |-> IF x = id THEN node ELSE nodes[x]]

\* A faulty insert_node that leaves the parent of the children as it was;
\* C4 must not hold with it.
InsertNodeKeepsParents(nodes, id, node) ==
    [x \in DOMAIN nodes \cup {id} |-> IF x = id THEN node ELSE nodes[x]]

\* Storage::insert_node: allocates the node and sets its children's parent.
InsertNode(nodes, id, node) ==
    LET children == {Children(node)[i] : i \in 1..Len(Children(node))}
    IN  [x \in DOMAIN nodes \cup {id} |->
            IF x = id THEN node
            ELSE IF x \in children THEN SetParent(nodes[x], id)
            ELSE nodes[x]]

\* A faulty release_node that leaves the node allocated; C28 must not hold
\* with it.
ReleaseNodeKeepsIt(nodes, id) == nodes

\* BoxStorage::release_node
ReleaseNode(nodes, id) == [x \in DOMAIN nodes \ {id} |-> nodes[x]]

\* A faulty address_in that stops at the gap of the first node it searches;
\* C20 must not hold with it.
AddressInFoundStops(nodes, id, key, r) ==
    IF r.panic
    THEN [ok |-> FALSE, addr |-> NoAddr, panic |-> TRUE]
    ELSE [ok |-> r.ok, addr |-> Address(id, r.offset), panic |-> FALSE]

\* Storage::address_in: Ok(address of the hit) or Err(address of the gap);
\* r is what offset_of returns in the node id.
RECURSIVE AddressIn(_, _, _)
AddressInFound(nodes, id, key, r) ==
    IF r.panic
    THEN [ok |-> FALSE, addr |-> NoAddr, panic |-> TRUE]
    ELSE IF r.ok
    THEN [ok |-> TRUE, addr |-> Address(id, r.offset), panic |-> FALSE]
    ELSE IF r.child = NoNode
    THEN [ok |-> FALSE, addr |-> Address(id, r.offset), panic |-> FALSE]
    ELSE AddressIn(nodes, r.child, key)

AddressIn(nodes, id, key) ==
    AddressInFound(nodes, id, key, OffsetOf(nodes[id], key))

\* RawBTree::address_of: Err(None) when the tree has no root.
AddressOf(nodes, root, key) ==
    IF root = NoNode
    THEN [ok |-> FALSE, addr |-> NoAddr, panic |-> FALSE]
    ELSE AddressIn(nodes, root, key)

\* RawBTree::get_at
GetAt(nodes, addr) == Item(nodes[addr.node], addr.offset)

\* RawBTree::get on the result r of address_of; NoItem stands for None.
GetFound(nodes, r) == IF r.ok THEN GetAt(nodes, r.addr) ELSE NoItem

\* RawBTree::get
Get(nodes, root, key) == GetFound(nodes, AddressOf(nodes, root, key))

\* Storage::next_item_or_back_address, the walk after the offset is shifted.
RECURSIVE NextItemOrBackClimb(_, _, _)
NextItemOrBackClimb(nodes, addr, original_addr_shifted) ==
    LET node == nodes[addr.node]
    IN  IF OffsetCmp(addr.offset, ItemCount(node)) < 0 THEN addr
        ELSE IF node.parent = NoNode THEN original_addr_shifted
        ELSE NextItemOrBackClimb(
                 nodes,
                 Address(node.parent,
                         ChildIndex(nodes[node.parent], addr.node)),
                 original_addr_shifted)

RECURSIVE NextItemOrBackDescend(_, _, _)
NextItemOrBackDescend(nodes, addr, original_addr_shifted) ==
    LET child_id == ChildIdOpt(nodes[addr.node], addr.offset)
    IN  IF child_id # NoNode
        THEN NextItemOrBackDescend(nodes, Address(child_id, 0),
                                   original_addr_shifted)
        ELSE NextItemOrBackClimb(nodes, addr, original_addr_shifted)

NextItemOrBackAddress(nodes, addr) ==
    LET c == OffsetCmp(addr.offset, ItemCount(nodes[addr.node]))
        shifted == IF c < 0
                   THEN Address(addr.node, OffsetIncr(addr.offset))
                   ELSE addr
    IN  IF c > 0 THEN NoAddr
        ELSE NextItemOrBackDescend(nodes, shifted, shifted)

\* Storage::remove_rightmost_leaf_of: the leaf reached by last children.
RECURSIVE RightmostLeafOf(_, _)
RightmostLeafOf(nodes, id) ==
    IF IsLeaf(nodes[id]) THEN id
    ELSE RightmostLeafOf(nodes,
                         ChildId(nodes[id], ChildCount(nodes[id]) - 1))

\* ------------------------------------------------------------ rebalancing

\* A faulty rotation that hands the right sibling itself, and not its first
\* child, to the deficient internal node; C3 must not hold with it.
RotateLeftNodesGraftsSibling(nodes, id, deficient_child_index) ==
    LET node == nodes[id]
        pivot_offset == deficient_child_index
        right_sibling_id == ChildId(node, deficient_child_index + 1)
        deficient_child_id == ChildId(node, deficient_child_index)
        popped == PopLeft(nodes[right_sibling_id])
        pushed == PushRight(nodes[deficient_child_id],
                            Item(node, pivot_offset),
                            IF popped.child # NoNode THEN right_sibling_id
                            ELSE NoNode)
    IN  [nodes EXCEPT
            ![right_sibling_id] = popped.node,
            ![id] = SetItem(node, pivot_offset, popped.item),
            ![deficient_child_id] = pushed.node]

\* The nodes after try_rotate_left succeeds: the first item of the right
\* sibling goes to the pivot, the pivot to the end of the deficient child,
\* with the first child of the right sibling when the nodes are internal.
RotateLeftNodes(nodes, id, deficient_child_index) ==
    LET node == nodes[id]
        pivot_offset == deficient_child_index
        right_sibling_id == ChildId(node, deficient_child_index + 1)
        deficient_child_id == ChildId(node, deficient_child_index)
        popped == PopLeft(nodes[right_sibling_id])
        pushed == PushRight(nodes[deficient_child_id],
                            Item(node, pivot_offset), popped.child)
        nodes1 == [nodes EXCEPT
                      ![right_sibling_id] = popped.node,
                      ![id] = SetItem(node, pivot_offset, popped.item),
                      ![deficient_child_id] = pushed.node]
    IN  IF popped.child # NoNode
        THEN [nodes1 EXCEPT ![popped.child] =
                 SetParent(@, deficient_child_id)]
        ELSE nodes1

\* try_rotate_left
TryRotateLeft(nodes, id, deficient_child_index, addr) ==
    LET node == nodes[id]
        pivot_offset == deficient_child_index
        right_sibling_index == deficient_child_index + 1
        right_sibling_id == ChildId(node, right_sibling_index)
        deficient_child_id == ChildId(node, deficient_child_index)
        failed == [ok |-> FALSE, nodes |-> nodes, addr |-> addr,
                   panic |-> FALSE]
    IN  IF right_sibling_index >= ChildCount(node) THEN failed
        ELSE IF WouldUnderflow(nodes[right_sibling_id]) THEN failed
        ELSE
        LET left_offset == ItemCount(nodes[deficient_child_id])
            addr1 ==
                IF addr.node = right_sibling_id
                THEN IF addr.offset = 0
                     THEN Address(id, pivot_offset)
                     ELSE Address(addr.node, OffsetDecr(addr.offset))
                ELSE IF addr.node = id /\ addr.offset = pivot_offset
                THEN Address(deficient_child_id, left_offset)
                ELSE addr
        IN  [ok |-> TRUE,
             nodes |-> RotateLeftNodes(nodes, id, deficient_child_index),
             addr |-> addr1,
             panic |-> PushPanics(nodes[deficient_child_id],
                                  PopLeft(nodes[right_sibling_id]).child)]

\* try_rotate_right: the deficient child takes the pivot, the pivot takes
\* the last item of the left sibling.
TryRotateRight(nodes, id, deficient_child_index, addr) ==
    LET node == nodes[id]
        left_sibling_index == deficient_child_index - 1
        pivot_offset == left_sibling_index
        left_sibling_id == ChildId(node, left_sibling_index)
        deficient_child_id == ChildId(node, deficient_child_index)
        failed == [ok |-> FALSE, nodes |-> nodes, addr |-> addr,
                   panic |-> FALSE]
    IN  IF ~(deficient_child_index > 0) THEN failed
        ELSE IF WouldUnderflow(nodes[left_sibling_id]) THEN failed
        ELSE
        LET popped == PopRight(nodes[left_sibling_id])
            left_offset == popped.offset
            pivot == Item(node, pivot_offset)
            pushed == PushLeft(nodes[deficient_child_id], pivot,
                               popped.child)
            nodes1 == [nodes EXCEPT
                          ![left_sibling_id] = popped.node,
                          ![id] = SetItem(node, pivot_offset, popped.item),
                          ![deficient_child_id] = pushed]
            nodes2 == IF popped.child # NoNode
                      THEN [nodes1 EXCEPT ![popped.child] =
                               SetParent(@, deficient_child_id)]
                      ELSE nodes1
            addr1 ==
                IF addr.node = deficient_child_id
                THEN Address(addr.node, OffsetIncr(addr.offset))
                ELSE IF addr.node = left_sibling_id
                THEN IF addr.offset = left_offset
                     THEN Address(id, pivot_offset)
                     ELSE addr
                ELSE IF addr.node = id /\ addr.offset = pivot_offset
                THEN Address(deficient_child_id, 0)
                ELSE addr
        IN  [ok |-> TRUE, nodes |-> nodes2, addr |-> addr1,
             panic |-> PushPanics(nodes[deficient_child_id], popped.child)]

\* The index of the left node of the pair that merge joins.
MergeLeftIndex(deficient_child_index) ==
    IF deficient_child_index > 0
    THEN deficient_child_index - 1
    ELSE deficient_child_index

\* merge, once Internal::merge has returned m: the right node of the pair
\* has been appended to the left one after the separator and released.
MergeAppended(nodes, id, addr, m, appended, released) ==
    LET right_children == {Children(nodes[m.right_id])[i] :
                               i \in 1..Len(Children(nodes[m.right_id]))}
    IN  [nodes |-> [x \in DOMAIN released |->
                       IF x = m.left_id THEN appended.node
                       ELSE IF x \in right_children
                       THEN SetParent(released[x], m.left_id)
                       ELSE released[x]],
         addr |->
            IF addr.node = id
            THEN IF addr.offset # Before /\
                    OffsetCmp(addr.offset, m.offset) = 0
                 THEN Address(m.left_id, appended.offset)
                 ELSE IF addr.offset # Before /\
                         OffsetCmp(addr.offset, m.offset) > 0
                 THEN Address(addr.node, OffsetDecr(addr.offset))
                 ELSE addr
            ELSE IF addr.node = m.right_id
            THEN Address(m.left_id, addr.offset + appended.offset + 1)
            ELSE addr,
         balance |-> m.balance,
         panic |-> \/ NodeAppendPanics(nodes[m.left_id], nodes[m.right_id])
                   \/ addr.node = m.right_id /\ addr.offset = Before]

\* A faulty merge that does not release the right node; C29 must not hold
\* with it.
MergeWithLeaksRight(nodes, id, addr, m) ==
    MergeAppended(nodes, id, addr, m,
                  NodeAppend(nodes[m.left_id], m.separator,
                             nodes[m.right_id]),
                  [nodes EXCEPT ![id] = m.node])

MergeWith(nodes, id, addr, m) ==
    MergeAppended(nodes, id, addr, m,
                  NodeAppend(nodes[m.left_id], m.separator,
                             nodes[m.right_id]),
                  ReleaseNode([nodes EXCEPT ![id] = m.node], m.right_id))

\* A faulty merge that leaves the tracked address as it was; C18 must not
\* hold with it.
MergeKeepsAddr(nodes, id, deficient_child_index, addr) ==
    [MergeWith(nodes, id, addr,
               InternalMerge(nodes[id], MergeLeftIndex(deficient_child_index)))
         EXCEPT !.addr = addr]

\* merge
Merge(nodes, id, deficient_child_index, addr) ==
    MergeWith(nodes, id, addr,
              InternalMerge(nodes[id], MergeLeftIndex(deficient_child_index)))

\* A faulty translation that forgets the median when the address moves to
\* the right node; C17 must not hold with it.
SplitAddrCountsMedian(addr, id, median_offset, up, right_id) ==
    IF addr.node = id
    THEN LET c == OffsetCmp(addr.offset, median_offset)
         IN  IF c = 0 THEN up
             ELSE IF c > 0
             THEN Address(right_id, addr.offset - median_offset)
             ELSE addr
    ELSE addr

\* The tracked address after a split of the node id at median_offset.
SplitAddr(addr, id, median_offset, up, right_id) ==
    IF addr.node = id
    THEN LET c == OffsetCmp(addr.offset, median_offset)
         IN  IF c = 0 THEN up
             ELSE IF c > 0
             THEN Address(right_id, addr.offset - median_offset - 1)
             ELSE addr
    ELSE addr

\* rebalance.  The record r holds the variables of its loop: the storage,
\* the root, the node id under repair, its balance and the tracked address;
\* events records which branches were taken and done tells that the loop
\* has broken.

\* The loop breaks.
RebalanceBreak(r) == [r EXCEPT !.done = TRUE]

\* What rebalance returns once the loop has broken.
RebalanceDone(r) ==
    [nodes |-> r.nodes, root |-> r.root, addr |-> r.addr,
     panic |-> r.panic, events |-> r.events]

\* The assertion before the split, and those of the split.
SplitPanics(n) == IsUnderflowing(n) \/ NodeSplitPanics(n)

\* A faulty overflow that inserts the median and the right node at the end
\* of the parent; C27 must not hold with it.
SplitUnderParentAtEnd(r, s, right_id, nodes1, parent_id, offset) ==
    [nodes |-> [nodes1 EXCEPT ![parent_id] =
                    NodeInsert(@, ItemCount(@), s.median, right_id)],
     root |-> r.root,
     id |-> parent_id,
     addr |-> r.addr,
     balance |-> Balance(NodeInsert(nodes1[parent_id],
                                    ItemCount(nodes1[parent_id]), s.median,
                                    right_id)),
     events |-> r.events \cup {"split"},
     panic |-> FALSE,
     done |-> FALSE]

\* Overflow of a node with a parent: the parent takes the median and the
\* right node at offset, and the loop goes on with the parent.
SplitUnderParent(r, s, right_id, nodes1, parent_id, offset) ==
    [nodes |-> [nodes1 EXCEPT ![parent_id] =
                    NodeInsert(@, offset, s.median, right_id)],
     root |-> r.root,
     id |-> parent_id,
     addr |-> IF r.addr.node = r.id
              THEN SplitAddr(r.addr, r.id, s.len,
                             Address(parent_id, offset), right_id)
              ELSE IF r.addr.node = parent_id /\
                      r.addr.offset # Before /\ r.addr.offset >= offset
              THEN Address(r.addr.node, OffsetIncr(r.addr.offset))
              ELSE r.addr,
     balance |-> Balance(NodeInsert(nodes1[parent_id], offset, s.median,
                                    right_id)),
     events |-> r.events \cup {"split"},
     panic |-> \/ SplitPanics(r.nodes[r.id])
               \/ offset = NoIndex
               \/ NodeInsertPanics(nodes1[parent_id], offset, right_id),
     done |-> FALSE]

\* A faulty overflow of the root that allocates the new root and returns
\* the old one as the root; C37 must not hold with it.
SplitRootKeepsRoot(r, s, right_id, nodes1, root_id) ==
    [nodes |-> [InsertNode(nodes1, root_id,
                           NodeBinary(NoNode, r.id, s.median, right_id))
                   EXCEPT ![r.id] = SetParent(@, root_id),
                          ![right_id] = SetParent(@, root_id)],
     root |-> r.root,
     id |-> r.id,
     addr |-> SplitAddr(r.addr, r.id, s.len, Address(root_id, 0), right_id),
     balance |-> r.balance,
     events |-> r.events \cup {"root_split"},
     panic |-> SplitPanics(r.nodes[r.id]),
     done |-> TRUE]

\* Overflow of the root: a new binary root over the two halves.
SplitRoot(r, s, right_id, nodes1, root_id) ==
    [nodes |-> [InsertNode(nodes1, root_id,
                           NodeBinary(NoNode, r.id, s.median, right_id))
                   EXCEPT ![r.id] = SetParent(@, root_id),
                          ![right_id] = SetParent(@, root_id)],
     root |-> root_id,
     id |-> r.id,
     addr |-> SplitAddr(r.addr, r.id, s.len, Address(root_id, 0), right_id),
     balance |-> r.balance,
     events |-> r.events \cup {"root_split"},
     panic |-> SplitPanics(r.nodes[r.id]),
     done |-> TRUE]

\* A faulty overflow that puts a new root over the two halves even when the
\* node has a parent; C21 must not hold with it.
SplitInsertedAlwaysRoot(r, s, right_id, nodes1) ==
    SplitRoot(r, s, right_id, nodes1, FreshId(nodes1))

\* Overflow, after the split s and insert_node of the right node.
SplitInserted(r, s, right_id, nodes1) ==
    IF nodes1[r.id].parent # NoNode
    THEN SplitUnderParent(r, s, right_id, nodes1, nodes1[r.id].parent,
                          ChildIndex(nodes1[nodes1[r.id].parent], r.id))
    ELSE SplitRoot(r, s, right_id, nodes1, FreshId(nodes1))

RebalanceOverflow(r, s, right_id) ==
    SplitInserted(r, s, right_id,
                  InsertNode([r.nodes EXCEPT ![r.id] = s.left], right_id,
                             s.right))

\* A faulty turn that merges and breaks the loop; C39 must not hold with
\* it.
RebalanceMergedBreaks(r, parent_id, merged) ==
    [nodes |-> merged.nodes, root |-> r.root, id |-> parent_id,
     addr |-> merged.addr, balance |-> merged.balance,
     events |-> r.events \cup {"merge"}, panic |-> merged.panic,
     done |-> TRUE]

\* Underflow of a node with a parent, once the rotations have failed: the
\* merge, and the loop goes on with the parent.
RebalanceMerged(r, parent_id, merged) ==
    [nodes |-> merged.nodes, root |-> r.root, id |-> parent_id,
     addr |-> merged.addr, balance |-> merged.balance,
     events |-> r.events \cup {"merge"}, panic |-> merged.panic,
     done |-> FALSE]
\* A faulty turn that records the rotation and leaves the nodes as they
\* were; C30 must not hold with it.
RebalanceRotatedNothingMoved(r, rotated, event) ==
    [r EXCEPT !.addr = rotated.addr, !.panic = rotated.panic,
              !.events = @ \cup {event}, !.done = TRUE]

\* A rotation has succeeded: the loop breaks.
RebalanceRotated(r, rotated, event) ==
    [r EXCEPT !.nodes = rotated.nodes, !.addr = rotated.addr,
              !.panic = rotated.panic, !.events = @ \cup {event},
              !.done = TRUE]

\* A faulty turn that merges without looking at what try_rotate_right
\* returned; C24 must not hold with it.
RebalanceRotatedRightSkipped(r, parent_id, index, right) ==
    RebalanceMerged(r, parent_id, Merge(r.nodes, parent_id, index, r.addr))

\* Underflow of a node with a parent, once try_rotate_left has failed.
RebalanceRotatedRight(r, parent_id, index, right) ==
    IF right.ok
    THEN RebalanceRotated(r, right, "rotate_right")
    ELSE RebalanceMerged(r, parent_id,
                         Merge(r.nodes, parent_id, index, r.addr))

\* Underflow of a node with a parent: what try_rotate_left returned.
RebalanceRotatedLeft(r, parent_id, index, left) ==
    IF left.ok
    THEN RebalanceRotated(r, left, "rotate_left")
    ELSE RebalanceRotatedRight(
             r, parent_id, index,
             TryRotateRight(r.nodes, parent_id, index, r.addr))

RebalanceUnderParent(r, parent_id, index) ==
    IF index = NoIndex THEN [RebalanceBreak(r) EXCEPT !.panic = TRUE]
    ELSE RebalanceRotatedLeft(
             r, parent_id, index,
             TryRotateLeft(r.nodes, parent_id, index, r.addr))

\* A faulty turn that leaves an empty root leaf in place; C23 must not hold
\* with it.
RebalanceEmptyRootKeepsLeaf(r, root) ==
    IF root # NoNode
    THEN [r EXCEPT
             !.nodes = ReleaseNode([r.nodes EXCEPT ![root] =
                                        SetParent(@, NoNode)], r.id),
             !.root = root,
             !.addr = IF r.addr.node = r.id
                      THEN Address(root, ItemCount(r.nodes[root]))
                      ELSE r.addr,
             !.events = @ \cup {"root_collapse"},
             !.done = TRUE]
    ELSE [r EXCEPT !.events = @ \cup {"root_release"}, !.done = TRUE]

\* Underflow of an empty root: its only child becomes the root, or the
\* tree becomes empty.
RebalanceEmptyRoot(r, root) ==
    IF root # NoNode
    THEN [r EXCEPT
             !.nodes = ReleaseNode([r.nodes EXCEPT ![root] =
                                        SetParent(@, NoNode)], r.id),
             !.root = root,
             !.addr = IF r.addr.node = r.id
                      THEN Address(root, ItemCount(r.nodes[root]))
                      ELSE r.addr,
             !.events = @ \cup {"root_collapse"},
             !.done = TRUE]
    ELSE [r EXCEPT !.nodes = ReleaseNode(r.nodes, r.id),
                   !.root = NoNode,
                   !.addr = NoAddr,
                   !.events = @ \cup {"root_release"},
                   !.done = TRUE]

\* One turn of the loop of rebalance.
RebalanceTurn(r) ==
    IF r.balance.tag = "Balanced" THEN RebalanceBreak(r)
    ELSE IF r.balance.tag = "Overflow"
    THEN RebalanceOverflow(r, NodeSplit(r.nodes[r.id]), FreshId(r.nodes))
    ELSE IF r.nodes[r.id].parent # NoNode
    THEN RebalanceUnderParent(
             r, r.nodes[r.id].parent,
             ChildIndex(r.nodes[r.nodes[r.id].parent], r.id))
    ELSE IF r.balance.is_empty
    THEN RebalanceEmptyRoot(r, ChildIdOpt(r.nodes[r.id], 0))
    ELSE RebalanceBreak(r)

\* The loop: a panic ends it.
RECURSIVE RebalanceLoop(_)
RebalanceLoop(r) ==
    IF r.done \/ r.panic THEN RebalanceDone(r)
    ELSE RebalanceLoop(RebalanceTurn(r))

\* The variables of the loop when rebalance is entered.
RebalanceEnter(nodes, root, id, addr) ==
    [nodes |-> nodes, root |-> root, id |-> id, addr |-> addr,
     balance |-> Balance(nodes[id]), events |-> {}, panic |-> FALSE,
     done |-> FALSE]

\* rebalance
Rebalance(nodes, root, id, addr) ==
    RebalanceLoop(RebalanceEnter(nodes, root, id, addr))

\* ------------------------------------------------- storage: item mutation

\* Storage::insert_exactly_at, the storage once the node has taken the
\* item and before rebalance is called.
InsertedInto(nodes, addr, item, opt_right_id) ==
    [nodes EXCEPT ![addr.node] =
         NodeInsert(@, addr.offset, item, opt_right_id)]

\* Storage::insert_exactly_at
InsertExactlyAt(nodes, root, addr, item, opt_right_id) ==
    IF addr # NoAddr
    THEN LET r == Rebalance(
                      InsertedInto(nodes, addr, item, opt_right_id),
                      root, addr.node, addr)
         IN  [r EXCEPT !.panic = @ \/ NodeInsertPanics(nodes[addr.node],
                                                      addr.offset,
                                                      opt_right_id)]
    ELSE LET id == FreshId(nodes)
         IN  [nodes |-> InsertNode(nodes, id, NodeLeaf(NoNode, item)),
              root |-> id, addr |-> Address(id, 0), panic |-> FALSE,
              events |-> {}]

\* A faulty leaf_address that goes down the child before the one at the
\* offset; C34 must not hold with it.
RECURSIVE LeafAddressChildBefore(_, _)
LeafAddressChildBefore(nodes, addr) ==
    IF addr.offset = Before THEN [addr |-> addr, panic |-> TRUE]
    ELSE IF ChildIdOpt(nodes[addr.node], addr.offset) # NoNode
    THEN LeafAddressChildBefore(
             nodes,
             Address(ChildIdOpt(nodes[addr.node],
                                IF addr.offset > 0 THEN addr.offset - 1
                                ELSE 0),
                     ItemCount(nodes[ChildIdOpt(
                         nodes[addr.node],
                         IF addr.offset > 0 THEN addr.offset - 1 ELSE 0)])))
    ELSE [addr |-> addr, panic |-> FALSE]

\* Storage::leaf_address: down the child at the offset to the end of a
\* leaf; the unwrap of the offset fails on Before.
RECURSIVE LeafAddress(_, _)
LeafAddress(nodes, addr) ==
    IF addr.offset = Before THEN [addr |-> addr, panic |-> TRUE]
    ELSE IF ChildIdOpt(nodes[addr.node], addr.offset) # NoNode
    THEN LeafAddress(
             nodes,
             Address(ChildIdOpt(nodes[addr.node], addr.offset),
                     ItemCount(nodes[ChildIdOpt(nodes[addr.node],
                                                addr.offset)])))
    ELSE [addr |-> addr, panic |-> FALSE]

\* Storage::insert_at on the result la of leaf_address.
StorageInsertAtLeaf(nodes, root, la, item) ==
    [InsertExactlyAt(nodes, root, la.addr, item, NoNode)
         EXCEPT !.panic = @ \/ la.panic]

\* Storage::insert_at
StorageInsertAt(nodes, root, addr, item) ==
    IF addr = NoAddr
    THEN InsertExactlyAt(nodes, root, NoAddr, item, NoNode)
    ELSE StorageInsertAtLeaf(nodes, root, LeafAddress(nodes, addr), item)

\* A faulty normalize that climbs only when the offset is more than the
\* item count; C35 must not hold with it.
RECURSIVE NormalizePastOnly(_, _)
NormalizePastOnly(nodes, addr) ==
    IF OffsetCmp(addr.offset, ItemCount(nodes[addr.node])) <= 0 THEN addr
    ELSE IF nodes[addr.node].parent = NoNode THEN NoAddr
    ELSE IF ChildIndex(nodes[nodes[addr.node].parent], addr.node) = NoIndex
    THEN Address(NoNode, 0)
    ELSE NormalizePastOnly(
             nodes,
             Address(nodes[addr.node].parent,
                     ChildIndex(nodes[nodes[addr.node].parent], addr.node)))

\* Storage::normalize: up to the first ancestor with an item at or after
\* the address; NoAddr stands for None, the address of NoNode for the failed
\* unwrap of child_index.
RECURSIVE Normalize(_, _)
Normalize(nodes, addr) ==
    IF OffsetCmp(addr.offset, ItemCount(nodes[addr.node])) < 0 THEN addr
    ELSE IF nodes[addr.node].parent = NoNode THEN NoAddr
    ELSE IF ChildIndex(nodes[nodes[addr.node].parent], addr.node) = NoIndex
    THEN Address(NoNode, 0)
    ELSE Normalize(
             nodes,
             Address(nodes[addr.node].parent,
                     ChildIndex(nodes[nodes[addr.node].parent], addr.node)))

\* A faulty replace_at that returns the new element; C8 must not hold with
\* it.
ReplaceAtReturnsNew(nodes, addr, item) ==
    [nodes |-> [nodes EXCEPT ![addr.node] = SetItem(@, addr.offset, item)],
     item |-> item]

\* Storage::replace_at
ReplaceAt(nodes, addr, item) ==
    [nodes |-> [nodes EXCEPT ![addr.node] = SetItem(@, addr.offset, item)],
     item |-> Item(nodes[addr.node], addr.offset)]

\* Storage::remove_at, once rebalance has returned r.
RemoveAtRebalanced(item, r, panic, events) ==
    [removed |-> TRUE, nodes |-> r.nodes, new_root |-> r.root,
     item |-> item, new_addr |-> r.addr, panic |-> r.panic \/ panic,
     events |-> r.events \cup events]

\* Storage::remove_at, the storage before rebalance is called: the leaf
\* has lost the item lr.item.
TakenFromLeaf(nodes, addr, lr) == [nodes EXCEPT ![addr.node] = lr.node]

\* A faulty remove_at that copies the last item of the leaf into the
\* internal node and leaves it in the leaf; C31 must not hold with it.
TakenFromInternalCopied(nodes, addr, leaf_id) ==
    [nodes EXCEPT
        ![addr.node] =
            SetItem(@, addr.offset,
                    nodes[leaf_id].items[Len(nodes[leaf_id].items)])]

\* Storage::remove_at, the storage before rebalance is called: the last
\* item of the leaf has taken the place of the item of the internal node.
TakenFromInternal(nodes, addr, leaf_id) ==
    [nodes EXCEPT
        ![leaf_id].items = ArrayPop(@),
        ![addr.node] =
            SetItem(@, addr.offset,
                    nodes[leaf_id].items[Len(nodes[leaf_id].items)])]

\* Storage::remove_at of an item of an internal node: the last item of the
\* rightmost leaf under its left child takes its place.
RemoveAtInternal(nodes, root, addr, new_addr, leaf_id) ==
    RemoveAtRebalanced(
        Item(nodes[addr.node], addr.offset),
        Rebalance(TakenFromInternal(nodes, addr, leaf_id),
                  root, leaf_id, new_addr),
        new_addr = NoAddr, {"internal"})

\* Storage::remove_at on the result lr of leaf_remove.
RemoveAtRemoved(nodes, root, addr, lr) ==
    IF lr.tag = "item"
    THEN RemoveAtRebalanced(
             lr.item,
             Rebalance(TakenFromLeaf(nodes, addr, lr), root, addr.node,
                       addr),
             FALSE, {})
    ELSE IF lr.tag = "child"
    THEN RemoveAtInternal(nodes, root, addr,
                          NextItemOrBackAddress(nodes, addr),
                          RightmostLeafOf(nodes, lr.child))
    ELSE [removed |-> FALSE, nodes |-> nodes, new_root |-> root,
          item |-> NoItem, new_addr |-> NoAddr, panic |-> FALSE,
          events |-> {}]

\* Storage::remove_at; removed = FALSE stands for None.
RemoveAt(nodes, root, addr) ==
    RemoveAtRemoved(nodes, root, addr,
                    LeafRemove(nodes[addr.node], addr.offset))

\* ------------------------------------------------------------------- tree

\* RawBTree::visit_from_leaves: the nodes under id, children first.
RECURSIVE VisitFromLeavesWith(_, _)
VisitFromLeavesWith(nodes, id) ==
    LET cs == Children(nodes[id])
        F[i \in 0..Len(cs)] ==
            IF i = 0 THEN <<>>
            ELSE F[i - 1] \o VisitFromLeavesWith(nodes, cs[i]) \o <<cs[i]>>
    IN  F[Len(cs)]

\* A faulty visit_from_leaves that does not call the closure on the root;
\* C36 must not hold with it.
VisitFromLeavesSkipsRoot(nodes, root) ==
    IF root = NoNode THEN <<>>
    ELSE VisitFromLeavesWith(nodes, root)

VisitFromLeaves(nodes, root) ==
    IF root = NoNode THEN <<>>
    ELSE VisitFromLeavesWith(nodes, root) \o <<root>>

\* A faulty forget that leaves the items in the node; C15 must not hold
\* with it.
ForgetNodeKeepsItems(n) == n

\* Node::forget: the items are taken out of the node and forgotten.
ForgetNode(n) ==
    IF IsLeaf(n) THEN [n EXCEPT !.items = <<>>]
    ELSE [n EXCEPT !.other_children = <<>>]

\* The closure of RawBTree::forget on a visited node, once the node has
\* forgotten its content: BoxDrop::drop_node frees the box, which drops
\* the items the node still holds.
ForgetVisited(f, id, forgotten) ==
    [nodes |-> ReleaseNode(f.nodes, id),
     dropped |-> f.dropped \o NodeItems(forgotten),
     released |-> Append(f.released, id)]

\* RawBTree::forget over the nodes in the order visit_from_leaves_mut
\* visits them.
RECURSIVE ForgetVisit(_, _, _)
ForgetVisit(f, visited, i) ==
    IF i > Len(visited) THEN f
    ELSE ForgetVisit(ForgetVisited(f, visited[i],
                                   ForgetNode(f.nodes[visited[i]])),
                     visited, i + 1)

\* The clone of a node is allocated.
CloneInserted(nodes, id, node) ==
    [nodes |-> InsertNode(nodes, id, node), id |-> id]

\* A faulty clone_node that copies the node and keeps the children of the
\* original; C16 must not hold with it.
CloneNodeShallow(nodes, parent, node_id) ==
    CloneInserted(nodes, FreshId(nodes), SetParent(nodes[node_id], parent))

\* clone_node in RawBTree::clone.  The storages are unit values: the nodes
\* of the clone are boxes on the heap of the original.
RECURSIVE CloneNode(_, _, _)
RECURSIVE CloneBranches(_, _, _)
CloneBranch(done, item, child) ==
    [nodes |-> child.nodes,
     branches |-> Append(done.branches, Branch(item, child.id))]

CloneBranches(branches, i, done) ==
    IF i > Len(branches) THEN done
    ELSE CloneBranches(branches, i + 1,
                       CloneBranch(done, branches[i].item,
                                   CloneNode(done.nodes, NoNode,
                                             branches[i].child)))

CloneInternal(parent, first, rest) ==
    CloneInserted(rest.nodes, FreshId(rest.nodes),
                  Internal(parent, first.id, rest.branches))

CloneInternalFrom(node, parent, first) ==
    CloneInternal(parent, first,
                  CloneBranches(node.other_children, 1,
                                [nodes |-> first.nodes, branches |-> <<>>]))

CloneNode(nodes, parent, node_id) ==
    IF IsLeaf(nodes[node_id])
    THEN CloneInserted(nodes, FreshId(nodes),
                       Leaf(parent, nodes[node_id].items))
    ELSE CloneInternalFrom(nodes[node_id], parent,
                           CloneNode(nodes, NoNode,
                                     nodes[node_id].first_child))

\* RawBTree::clone: the heap after it and the root of the clone.
CloneTree(nodes, root) ==
    IF root = NoNode THEN [nodes |-> nodes, id |-> NoNode]
    ELSE CloneNode(nodes, NoNode, root)

\* RawBTree::forget
Forget(nodes, root) ==
    ForgetVisit([nodes |-> nodes, dropped |-> <<>>, released |-> <<>>],
                VisitFromLeaves(nodes, root), 1)

\* RawBTree::first_item_address
RECURSIVE FirstItemDescend(_, _)
FirstItemDescend(nodes, id) ==
    IF ChildIdOpt(nodes[id], 0) # NoNode
    THEN FirstItemDescend(nodes, ChildIdOpt(nodes[id], 0))
    ELSE Address(id, 0)

FirstItemAddress(nodes, root) ==
    IF root = NoNode THEN NoAddr ELSE FirstItemDescend(nodes, root)

\* Storage::next_item_address, the walk after the offset is shifted: up to
\* the first ancestor with an item on the right.  NoAddr stands for None;
\* the address of NoNode for the failed unwrap of child_index.
RECURSIVE NextItemClimb(_, _)
NextItemClimb(nodes, addr) ==
    LET node == nodes[addr.node]
    IN  IF OffsetCmp(addr.offset, ItemCount(node)) < 0 THEN addr
        ELSE IF node.parent = NoNode THEN NoAddr
        ELSE IF ChildIndex(nodes[node.parent], addr.node) = NoIndex
        THEN Address(NoNode, 0)
        ELSE NextItemClimb(
                 nodes,
                 Address(node.parent,
                         ChildIndex(nodes[node.parent], addr.node)))

\* A faulty walk that stops at the first item of the child and does not go
\* down to a leaf; C32 must not hold with it.
NextItemDescendOnce(nodes, addr) ==
    LET child_id == ChildIdOpt(nodes[addr.node], addr.offset)
    IN  IF child_id # NoNode
        THEN NextItemClimb(nodes, Address(child_id, 0))
        ELSE NextItemClimb(nodes, addr)

RECURSIVE NextItemDescend(_, _)
NextItemDescend(nodes, addr) ==
    LET child_id == ChildIdOpt(nodes[addr.node], addr.offset)
    IN  IF child_id # NoNode
        THEN NextItemDescend(nodes, Address(child_id, 0))
        ELSE NextItemClimb(nodes, addr)

NextItemAddress(nodes, addr) ==
    LET c == OffsetCmp(addr.offset, ItemCount(nodes[addr.node]))
        shifted == IF c < 0
                   THEN Address(addr.node, OffsetIncr(addr.offset))
                   ELSE addr
    IN  IF c > 0 THEN NoAddr ELSE NextItemDescend(nodes, shifted)

\* The elements a full forward iteration yields from addr on: get_at, then
\* next_item_address, until there is no address or no item at the address.
RECURSIVE IterFrom(_, _)
IterFromItem(nodes, addr, item) ==
    IF item = NoItem THEN <<>>
    ELSE <<item>> \o IterFrom(nodes, NextItemAddress(nodes, addr))

IterFrom(nodes, addr) ==
    IF addr = NoAddr \/ addr.node = NoNode THEN <<>>
    ELSE IterFromItem(nodes, addr, GetAt(nodes, addr))

\* The elements the iteration yields from first_item_address on.
Elements(nodes, root) == IterFrom(nodes, FirstItemAddress(nodes, root))

\* RawBTree::last_item_address; index - 1 on an empty node is Before.
RECURSIVE LastItemDescend(_, _)
LastItemDescend(nodes, id) ==
    IF ChildIdOpt(nodes[id], ItemCount(nodes[id])) # NoNode
    THEN LastItemDescend(nodes, ChildIdOpt(nodes[id], ItemCount(nodes[id])))
    ELSE Address(id, ItemCount(nodes[id]) - 1)

LastItemAddress(nodes, root) ==
    IF root = NoNode THEN NoAddr ELSE LastItemDescend(nodes, root)

\* A faulty walk that keeps the child index as the offset when it reaches
\* the parent; C12 must not hold with it.
RECURSIVE PreviousItemClimbKeepsIndex(_, _)
PreviousItemClimbKeepsIndex(nodes, addr) ==
    IF addr.offset # Before /\ addr.offset > 0
    THEN Address(addr.node, OffsetDecr(addr.offset))
    ELSE IF nodes[addr.node].parent = NoNode THEN NoAddr
    ELSE IF ChildIndex(nodes[nodes[addr.node].parent], addr.node) = NoIndex
    THEN Address(NoNode, 0)
    ELSE Address(nodes[addr.node].parent,
                 ChildIndex(nodes[nodes[addr.node].parent], addr.node))

\* Storage::previous_item_address, the inner loop: the offset before, or
\* up to the first ancestor that has an item on the left.  NoAddr stands
\* for None; the address of NoNode for a failed unwrap.
RECURSIVE PreviousItemClimb(_, _)
PreviousItemClimb(nodes, addr) ==
    IF addr.offset # Before /\ addr.offset > 0
    THEN Address(addr.node, OffsetDecr(addr.offset))
    ELSE IF nodes[addr.node].parent = NoNode THEN NoAddr
    ELSE IF ChildIndex(nodes[nodes[addr.node].parent], addr.node) = NoIndex
    THEN Address(NoNode, 0)
    ELSE PreviousItemClimb(
             nodes,
             Address(nodes[addr.node].parent,
                     ChildIndex(nodes[nodes[addr.node].parent], addr.node)))

\* Storage::previous_item_address, the outer loop: down the child at the
\* offset to the end of a leaf.
RECURSIVE PreviousItemAddress(_, _)
PreviousItemAddress(nodes, addr) ==
    IF addr.offset = Before THEN Address(NoNode, 0)
    ELSE IF ChildIdOpt(nodes[addr.node], addr.offset) # NoNode
    THEN PreviousItemAddress(
             nodes,
             Address(ChildIdOpt(nodes[addr.node], addr.offset),
                     ItemCount(nodes[ChildIdOpt(nodes[addr.node],
                                                addr.offset)])))
    ELSE PreviousItemClimb(nodes, addr)

\* Storage::previous_front_address: down the child at the offset, or at
\* the item count when the offset is past it, to the end of a leaf, and one
\* offset back; from Before, to the parent, one before the index of the
\* node.  NoAddr stands for None; the address of NoNode for a failed
\* unwrap.
RECURSIVE PreviousFrontAddress(_, _)
PreviousFrontAddress(nodes, addr) ==
    LET node == nodes[addr.node]
        index == IF addr.offset < ItemCount(node) THEN addr.offset
                 ELSE ItemCount(node)
    IN  IF addr.offset # Before
        THEN IF ChildIdOpt(node, index) # NoNode
             THEN PreviousFrontAddress(
                      nodes,
                      Address(ChildIdOpt(node, index),
                              ItemCount(nodes[ChildIdOpt(node, index)])))
             ELSE Address(addr.node, OffsetDecr(addr.offset))
        ELSE IF node.parent = NoNode THEN NoAddr
        ELSE IF ChildIndex(nodes[node.parent], addr.node) = NoIndex
        THEN Address(NoNode, 0)
        ELSE Address(node.parent,
                     OffsetDecr(ChildIndex(nodes[node.parent], addr.node)))

\* Storage::next_back_address: with the index after the offset, down the
\* child at the index to the front of a leaf; past the item count, to the
\* parent at the index of the node.
RECURSIVE NextBackAddress(_, _)
NextBackAddress(nodes, addr) ==
    LET node == nodes[addr.node]
        index == IF addr.offset = Before THEN 0 ELSE addr.offset + 1
    IN  IF index <= ItemCount(node)
        THEN IF ChildIdOpt(node, index) # NoNode
             THEN NextBackAddress(nodes,
                                  Address(ChildIdOpt(node, index), Before))
             ELSE Address(addr.node, index)
        ELSE IF node.parent = NoNode THEN NoAddr
        ELSE IF ChildIndex(nodes[node.parent], addr.node) = NoIndex
        THEN Address(NoNode, 0)
        ELSE Address(node.parent,
                     ChildIndex(nodes[node.parent], addr.node))

\* -------------------------------------------------------------- iterators

\* Iter::new, IterMut::new, IntoIter::new: the fields addr, end and len.
IterNew(nodes, root, len) ==
    [addr |-> FirstItemAddress(nodes, root), end |-> NoAddr, len |-> len]

\* Option::Some
Some(x) == <<x>>

\* Iter::size_hint
SizeHint(it) == <<it.len, Some(it.len)>>

\* The result of a call: the iterator after it, the item (NoItem for
\* None), the address read, and whether an unwrap failed.
IterNone(it) ==
    [it |-> it, item |-> NoItem, at |-> NoAddr, panic |-> FALSE]

\* Iter::next when it yields: the item read at addr and the next address.
IterYield(it, item, next) ==
    [it |-> [it EXCEPT !.len = @ - 1, !.addr = next],
     item |-> item,
     at |-> it.addr,
     panic |-> item = NoItem \/ next = Address(NoNode, 0)]

\* A faulty next that leaves len as it is; C14 must not hold with it.
IterNextKeepsLen(nodes, it) ==
    IF it.addr = NoAddr THEN IterNone(it)
    ELSE IF it.len > 0
    THEN [IterYield(it, GetAt(nodes, it.addr),
                    NextItemAddress(nodes, it.addr))
              EXCEPT !.it.len = it.len]
    ELSE IterNone(it)

\* Iter::next, IntoIter::next
IterNext(nodes, it) ==
    IF it.addr = NoAddr THEN IterNone(it)
    ELSE IF it.len > 0
    THEN IterYield(it, GetAt(nodes, it.addr),
                   NextItemAddress(nodes, it.addr))
    ELSE IterNone(it)

\* Iter::next_back, once the address of the item is known.
IterNextBackAt(nodes, it, addr) ==
    IF addr = NoAddr \/ addr.node = NoNode
    THEN [IterNone(it) EXCEPT !.panic = TRUE]
    ELSE [it |-> [it EXCEPT !.len = @ - 1, !.end = addr],
          item |-> Item(nodes[addr.node], addr.offset),
          at |-> addr,
          panic |-> ~(addr.offset # Before /\
                      addr.offset < ItemCount(nodes[addr.node]))]

\* A faulty next_back that does not look at len; C13 must not hold with it.
IterNextBackIgnoresLen(nodes, root, it) ==
    IF it.end # NoAddr
    THEN IterNextBackAt(nodes, it, PreviousItemAddress(nodes, it.end))
    ELSE IterNextBackAt(nodes, it, LastItemAddress(nodes, root))

\* Iter::next_back, IntoIter::next_back
IterNextBack(nodes, root, it) ==
    IF it.len > 0
    THEN IF it.end # NoAddr
         THEN IterNextBackAt(nodes, it, PreviousItemAddress(nodes, it.end))
         ELSE IterNextBackAt(nodes, it, LastItemAddress(nodes, root))
    ELSE IterNone(it)

\* A loop over the iterator, as a for loop or Iterator::last runs it: next
\* until it returns None.  run holds the iterator, the items yielded and
\* the addresses they were read at.
RECURSIVE IterRun(_, _)
IterRunStep(nodes, run, r) ==
    IF r.panic THEN [run EXCEPT !.panic = TRUE]
    ELSE IF r.item = NoItem THEN run
    ELSE IterRun(nodes, [it |-> r.it,
                         items |-> Append(run.items, r.item),
                         addrs |-> Append(run.addrs, r.at),
                         panic |-> FALSE])

IterRun(nodes, run) == IterRunStep(nodes, run, IterNext(nodes, run.it))

\* The same loop over the reversed iterator: next_back until None.
RECURSIVE IterRunBack(_, _, _)
IterRunBackStep(nodes, root, run, r) ==
    IF r.panic THEN [run EXCEPT !.panic = TRUE]
    ELSE IF r.item = NoItem THEN run
    ELSE IterRunBack(nodes, root, [it |-> r.it,
                                   items |-> Append(run.items, r.item),
                                   addrs |-> Append(run.addrs, r.at),
                                   panic |-> FALSE])

IterRunBack(nodes, root, run) ==
    IterRunBackStep(nodes, root, run, IterNextBack(nodes, root, run.it))

\* The start of a loop over a new iterator of the tree.
IterStart(nodes, root, len) ==
    [it |-> IterNew(nodes, root, len), items |-> <<>>, addrs |-> <<>>,
     panic |-> FALSE]

\* The shape of the subtree of a node without its handles: the items of the
\* node and the shapes of its children, in order.
RECURSIVE Structure(_, _)
Structure(nodes, id) ==
    [items |-> NodeItems(nodes[id]),
     children |-> [i \in 1..Len(Children(nodes[id])) |->
                      Structure(nodes, Children(nodes[id])[i])]]

\* The shape of the tree: no shape when there is no root.
TreeStructure(nodes, root) ==
    IF root = NoNode THEN <<>> ELSE <<Structure(nodes, root)>>

\* The items of a shape, in order.
RECURSIVE StructureItems(_)
StructureItems(t) ==
    LET F[i \in 0..Len(t.items)] ==
            IF i = 0 THEN <<>>
            ELSE F[i - 1] \o <<t.items[i]>> \o
                 (IF t.children = <<>> THEN <<>>
                  ELSE StructureItems(t.children[i + 1]))
    IN  (IF t.children = <<>> THEN <<>> ELSE StructureItems(t.children[1]))
        \o F[Len(t.items)]

TreeStructureItems(tree) ==
    IF tree = <<>> THEN <<>> ELSE StructureItems(tree[1])

\* ---------------------------------------------------------- state machine

VARIABLES
    nodes,      \* the allocated nodes: handle -> node
    root,       \* RawBTree::root
    len,        \* RawBTree::len
    panicked,   \* an operation panicked
    last,       \* the last operation: its inputs, result and rebalancing
    ref,        \* reference sorted map, key -> value, run side by side
    load,       \* the workload the caller is running
    iter,       \* the iterator over the tree, and what it has yielded
    drops,      \* key -> how many owned copies of its element were dropped
    released,   \* the nodes RawBTree::forget has released, in order
    clone,      \* the tree RawBTree::clone has returned
    turn        \* the call of rebalance that is running, turn by turn

vars == <<nodes, root, len, panicked, last, ref, load, iter, drops,
          released, clone, turn>>

\* What the operations of the tree leave alone.
aside == <<iter, drops, released, clone, turn>>

\* The element the reference map holds for a key; NoItem stands for None.
RefGet(f, k) ==
    IF k \in DOMAIN f THEN [key |-> k, value |-> f[k]] ELSE NoItem

\* The tree as an insert of an absent key finds it; nothing for the other
\* operations.
NoBefore == [tree |-> <<>>, len |-> 0]

TreeBefore(op, key) ==
    IF op = "insert" /\ key \notin DOMAIN ref
    THEN [tree |-> TreeStructure(nodes, root), len |-> len]
    ELSE NoBefore

\* ret is the result of the tree, ref_ret the result of the reference map,
\* addr the address the storage returned: the address of the inserted item
\* from insert_exactly_at, new_addr from remove_at.  undo tells that the
\* operation removes the element the operation before it has inserted, and
\* before is the tree that insertion found.
Op(op, key, value, ret, addr, events) ==
    [op |-> op, key |-> key, value |-> value, ret |-> ret,
     ref_ret |-> IF op \in {"insert", "remove", "remove_at"}
                 THEN RefGet(ref, key) ELSE NoItem,
     addr |-> addr, events |-> events,
     undo |-> /\ op \in {"remove", "remove_at"}
              /\ last.op = "insert"
              /\ last.ref_ret = NoItem
              /\ last.key = key,
     before |-> TreeBefore(op, key)]

EmptyMap == [k \in {} |-> 0]

\* No iterator.  front holds what next has yielded and back what next_back
\* has, call is the last call on the iterator and ret what it returned.
NoIter ==
    [kind |-> "none", it |-> [addr |-> NoAddr, end |-> NoAddr, len |-> 0],
     front |-> <<>>, back |-> <<>>, call |-> "none", ret |-> NoItem]

NoDrops == [k \in Keys |-> 0]

\* No clone.
NoClone == [made |-> FALSE, root |-> NoNode, len |-> 0, ref |-> EmptyMap]

\* No call of rebalance is running.  Else op is the operation that has
\* called it, item the element it will return, step the branch its last
\* turn has taken and loop holds the variables of its loop but the storage,
\* which is nodes.
NoTurn ==
    [phase |-> "idle", op |-> "none", item |-> NoItem, step |-> "none",
     loop |-> <<>>]

\* The reference map after an insertion and after a removal.
RefInsert(f, k, v) ==
    [x \in DOMAIN f \cup {k} |-> IF x = k THEN v ELSE f[x]]

RefRemove(f, k) == [x \in DOMAIN f \ {k} |-> f[x]]

\* k is the least, or the greatest, key of the reference map.
IsMin(f, k) == k \in DOMAIN f /\ \A j \in DOMAIN f : k <= j

IsMax(f, k) == k \in DOMAIN f /\ \A j \in DOMAIN f : k >= j

\* The workloads.  Every new element has the value 1.  "mixed" issues, in
\* any order, the inserts of the absent keys up to SmallKey, the removals of
\* the stored keys and the removal of the least absent key.  "ascending"
\* inserts 1, 2, ... and "descending" MaxKey, MaxKey - 1, ...; at a sampled
\* size either may turn into "drain_min", which removes the least key again
\* and again, or into "drain_max", which removes the greatest, or into
\* "picked" by the removal of any other key, which goes on with the keys
\* that follow it, up to MaxPick of them, and after which the last key
\* removed may be inserted, or removed once more.  An insert of a stored
\* key with the value that follows the stored one (1 follows MaxVal) leads
\* to "replaced", from
\* "mixed" for any key and from "ascending" and "descending" for the least
\* key, the greatest and the first of the root; the key may then be
\* removed.  "odds" inserts 1, 3, 5, ... up to MaxKey and is followed by
\* "evens", which inserts the even keys, each time one that has at most
\* MaxSkip absent even keys below it; once every key is stored any key may
\* be removed.  "probe" ends the run.
When(cond, name) == IF cond THEN {name} ELSE {}

\* The sizes of the trees that are sampled: at most SmallKey elements, a
\* multiple of Stride, or every key.
SampledLen == len <= SmallKey \/ len % Stride = 0 \/ len = MaxKey

Deep == {"ascending", "descending", "drain_min", "drain_max"}

LoadAfterInsert(k, v) ==
    IF k \in DOMAIN ref
    THEN When(/\ v = (ref[k] % MaxVal) + 1
              /\ \/ load = "mixed"
                 \/ /\ load \in {"ascending", "descending"}
                    /\ \/ k = NodeItems(nodes[root])[1].key
                       \/ IsMin(ref, k)
                       \/ IsMax(ref, k),
              "replaced")
    ELSE When(v = 1 /\ load \in {"none", "mixed"} /\ k <= SmallKey,
              "mixed")
         \cup
         When(/\ v = 1
              /\ \/ load = "none" /\ k = 1
                 \/ load = "ascending" /\ IsMax(ref, k - 1),
              "ascending")
         \cup
         When(/\ v = 1
              /\ \/ load = "none" /\ k = MaxKey
                 \/ load = "descending" /\ IsMin(ref, k + 1),
              "descending")
         \cup
         When(v = 1 /\ load = "picked" /\ k = last.key, "probe")
         \cup
         When(/\ v = 1
              /\ k % 2 = 1
              /\ \/ load = "none" /\ k = 1
                 \/ load = "odds" /\ IsMax(ref, k - 2),
              "odds")
         \cup
         When(/\ v = 1
              /\ k % 2 = 0
              /\ \/ load = "odds" /\ \E j \in {MaxKey - 1, MaxKey} :
                                        j % 2 = 1 /\ IsMax(ref, j)
                 \/ load = "evens"
              /\ Cardinality({j \in 1..(k - 1) :
                                  j % 2 = 0 /\ j \notin DOMAIN ref})
                     <= MaxSkip,
              "evens")

LoadAfterRemove(k) ==
    IF k \notin DOMAIN ref
    THEN When(\/ /\ load \in {"none", "mixed"}
                 /\ k <= SmallKey
                 /\ \A j \in 1..(k - 1) : j \in DOMAIN ref
              \/ load \in Deep /\ (IsMax(ref, k - 1) \/ IsMin(ref, k + 1))
              \/ load = "picked" /\ k = last.key,
              "probe")
    ELSE IF load = "replaced" THEN When(k = last.key, "probe")
    ELSE IF load = "picked"
    THEN When(/\ k = last.key + 1
              /\ ~IsMax(ref, k)
              /\ \E j \in (k - MaxPick)..(k - 1) : j \in DOMAIN ref,
              "picked")
    ELSE IF load = "probe" THEN {}
    ELSE IF load \in {"odds", "evens"}
    THEN When(load = "evens" /\ DOMAIN ref = Keys, "probe")
    ELSE IF DOMAIN ref = {k} THEN {"none"}
    ELSE IF load = "mixed" THEN {"mixed"}
    ELSE When(/\ \/ load \in {"ascending", "descending"} /\ SampledLen
                 \/ load = "drain_min"
              /\ IsMin(ref, k),
              "drain_min")
         \cup
         When(/\ \/ load \in {"ascending", "descending"} /\ SampledLen
                 \/ load = "drain_max"
              /\ IsMax(ref, k),
              "drain_max")
         \cup
         When(load \in {"ascending", "descending"} /\ SampledLen /\
              ~IsMin(ref, k) /\ ~IsMax(ref, k),
              "picked")

Init ==
    /\ nodes = EmptyMap
    /\ root = NoNode
    /\ len = 0
    /\ panicked = FALSE
    /\ last = [op |-> "new", key |-> 0, value |-> 0, ret |-> NoItem,
               ref_ret |-> NoItem, addr |-> NoAddr, events |-> {},
               undo |-> FALSE, before |-> NoBefore]
    /\ ref = EmptyMap
    /\ load = "none"
    /\ iter = NoIter
    /\ drops = NoDrops
    /\ released = <<>>
    /\ clone = NoClone
    /\ turn = NoTurn

\* RawBTree::insert when address_of finds a stored element at the address.
InsertReplaced(k, v, replaced) ==
    /\ nodes' = replaced.nodes
    /\ last' = Op("insert", k, v, replaced.item, NoAddr, {})
    /\ UNCHANGED <<root, len, panicked>>

\* RawBTree::insert when address_of finds no element.
InsertInserted(k, v, inserted) ==
    /\ nodes' = inserted.nodes
    /\ root' = inserted.root
    /\ len' = len + 1
    /\ panicked' = inserted.panic
    /\ last' = Op("insert", k, v, NoItem, inserted.addr, inserted.events)

\* RawBTree::insert on the result a of address_of.
InsertAt(k, v, a) ==
    IF a.panic
    THEN /\ panicked' = TRUE
         /\ last' = Op("insert", k, v, NoItem, NoAddr, {})
         /\ UNCHANGED <<nodes, root, len>>
    ELSE IF a.ok
    THEN InsertReplaced(k, v, ReplaceAt(nodes, a.addr,
                                        [key |-> k, value |-> v]))
    ELSE InsertInserted(k, v, InsertExactlyAt(nodes, root, a.addr,
                                              [key |-> k, value |-> v],
                                              NoNode))

\* RawBTree::insert
Insert(k, v) ==
    /\ ~panicked
    /\ load # "probe"
    /\ load' \in LoadAfterInsert(k, v)
    /\ ref' = RefInsert(ref, k, v)
    /\ InsertAt(k, v, AddressOf(nodes, root, k))
    /\ UNCHANGED aside

\* RawBTree::remove and remove_at, once Storage::remove_at has returned r.
Removed(op, k, r) ==
    /\ nodes' = r.nodes
    /\ root' = r.new_root
    /\ len' = len - 1
    /\ panicked' = (r.panic \/ ~r.removed)
    /\ last' = Op(op, k, 0, r.item, r.new_addr, r.events)

\* A faulty remove that counts one element less when it finds none; C22
\* must not hold with it.
RemoveFoundCountsMiss(k, a) ==
    IF a.panic
    THEN /\ panicked' = TRUE
         /\ last' = Op("remove", k, 0, NoItem, NoAddr, {})
         /\ UNCHANGED <<nodes, root, len>>
    ELSE IF a.ok
    THEN Removed("remove", k, RemoveAt(nodes, root, a.addr))
    ELSE /\ last' = Op("remove", k, 0, NoItem, NoAddr, {})
         /\ len' = len - 1
         /\ UNCHANGED <<nodes, root, panicked>>

\* RawBTree::remove on the result a of address_of.
RemoveFound(k, a) ==
    IF a.panic
    THEN /\ panicked' = TRUE
         /\ last' = Op("remove", k, 0, NoItem, NoAddr, {})
         /\ UNCHANGED <<nodes, root, len>>
    ELSE IF a.ok
    THEN Removed("remove", k, RemoveAt(nodes, root, a.addr))
    ELSE /\ last' = Op("remove", k, 0, NoItem, NoAddr, {})
         /\ UNCHANGED <<nodes, root, len, panicked>>

\* RawBTree::remove
Remove(k) ==
    /\ ~panicked
    /\ load' \in LoadAfterRemove(k)
    /\ ref' = RefRemove(ref, k)
    /\ RemoveFound(k, AddressOf(nodes, root, k))
    /\ UNCHANGED aside

\* The occupied addresses of the allocated nodes.
OccupiedAddresses ==
    {a \in [node : DOMAIN nodes, offset : 0..M] :
         a.offset < ItemCount(nodes[a.node])}

\* RawBTree::remove_at
RemoveAtAddr(addr) ==
    LET k == GetAt(nodes, addr).key
    IN  /\ ~panicked
        /\ k \in DOMAIN ref
        /\ load' \in LoadAfterRemove(k)
        /\ ref' = RefRemove(ref, k)
        /\ Removed("remove_at", k, RemoveAt(nodes, root, addr))
        /\ UNCHANGED aside

\* RawBTree::clear
Clear ==
    LET visited == VisitFromLeaves(nodes, root)
        dropped == {visited[i] : i \in 1..Len(visited)}
    IN  /\ ~panicked
        /\ load # "probe"
        /\ nodes' = [x \in DOMAIN nodes \ dropped |-> nodes[x]]
        /\ root' = NoNode
        /\ len' = 0
        /\ ref' = EmptyMap
        /\ load' = "none"
        /\ last' = Op("clear", 0, 0, NoItem, NoAddr, {})
        /\ UNCHANGED panicked
        /\ UNCHANGED aside

Next ==
    \/ \E k \in Keys, v \in Values : Insert(k, v)
    \/ \E k \in Keys : Remove(k)
    \/ \E addr \in OccupiedAddresses : RemoveAtAddr(addr)
    \/ Clear

Spec == Init /\ [][Next]_vars

\* ------------------------------------------------------------- iterators

\* The drops counted after the owners of the items s have dropped them.
AddDrops(d, s) ==
    [k \in Keys |-> d[k] + Cardinality({i \in 1..Len(s) : s[i].key = k})]

\* The trees an iterator is made over.
Sampled ==
    /\ \/ load \in {"none", "ascending", "descending", "drain_min",
                    "drain_max"}
       \/ load = "evens" /\ len = MaxKey
    /\ SampledLen

\* The tree is built by inserts in ascending or descending order, or odd
\* keys first and then the even keys in ascending order.
BuildInsert ==
    /\ iter.kind = "none"
    /\ ~clone.made
    /\ turn = NoTurn
    /\ \E k \in Keys :
           /\ Insert(k, 1)
           /\ load' \in {"ascending", "descending", "odds", "evens"}
           /\ load' = "evens" => \A j \in 1..k : j \in DOMAIN ref'

\* A tree that holds every key is drained from either end.
BuildRemove ==
    /\ iter.kind = "none"
    /\ ~clone.made
    /\ turn = NoTurn
    /\ load \in {"drain_min", "drain_max"} \/ len = MaxKey
    /\ \E k \in Keys :
           /\ Remove(k)
           /\ load' \in {"drain_min", "drain_max"}

\* RawBTree::iter, and IntoIterator::into_iter for RawBTree, which moves
\* the tree into the iterator.
IterBegin(kind) ==
    /\ iter.kind = "none"
    /\ ~panicked
    /\ Sampled
    /\ iter' = [NoIter EXCEPT !.kind = kind,
                              !.it = IterNew(nodes, root, len),
                              !.call = "new"]
    /\ UNCHANGED <<nodes, root, len, panicked, last, ref, load, drops,
                   released, clone, turn>>

\* A call r of next or next_back returns.  An item IntoIter yields is an
\* owned copy read out of the node, which its receiver drops.
IterCalled(call, r) ==
    /\ iter' = [iter EXCEPT
                    !.it = r.it,
                    !.front = IF call = "next" /\ r.item # NoItem
                              THEN Append(@, r.item) ELSE @,
                    !.back = IF call = "next_back" /\ r.item # NoItem
                             THEN Append(@, r.item) ELSE @,
                    !.call = call,
                    !.ret = r.item]
    /\ drops' = IF iter.kind = "into_iter" /\ r.item # NoItem
                THEN AddDrops(drops, <<r.item>>) ELSE drops
    /\ panicked' = r.panic
    /\ UNCHANGED <<nodes, root, len, last, ref, load, released, clone, turn>>

\* Iter::next, IntoIter::next
IterCallNext ==
    /\ iter.kind \in {"iter", "into_iter"}
    /\ ~panicked
    /\ IterCalled("next", IterNext(nodes, iter.it))

\* Iter::next_back, IntoIter::next_back
IterCallNextBack ==
    /\ iter.kind \in {"iter", "into_iter"}
    /\ ~panicked
    /\ IterCalled("next_back", IterNextBack(nodes, root, iter.it))

\* Drop for IntoIter, once Iterator::last has run the iterator to its end
\* and RawBTree::forget has visited the nodes.  The drop of the tree that
\* follows finds no root.
IntoIterDropped(run, f) ==
    /\ iter' = [iter EXCEPT !.kind = "dropped", !.it = run.it,
                            !.call = "drop", !.ret = NoItem]
    /\ drops' = AddDrops(drops, run.items \o f.dropped)
    /\ released' = f.released
    /\ nodes' = f.nodes
    /\ root' = NoNode
    /\ len' = 0
    /\ panicked' = run.panic
    /\ UNCHANGED <<last, ref, load, clone, turn>>

\* Drop for IntoIter
IntoIterDrop ==
    /\ iter.kind = "into_iter"
    /\ ~panicked
    /\ IntoIterDropped(IterRun(nodes, [it |-> iter.it, items |-> <<>>,
                                       addrs |-> <<>>, panic |-> FALSE]),
                       Forget(nodes, root))

NextIter ==
    \/ BuildInsert
    \/ BuildRemove
    \/ \E kind \in {"iter", "into_iter"} : IterBegin(kind)
    \/ IterCallNext
    \/ IterCallNextBack
    \/ IntoIterDrop

SpecIter == Init /\ [][NextIter]_vars

\* ----------------------------------------------------------------- clone

\* RawBTree::clone, once clone_node has returned r.
CloneMade(r) ==
    /\ nodes' = r.nodes
    /\ clone' = [made |-> TRUE, root |-> r.id, len |-> len, ref |-> ref]
    /\ last' = Op("clone", 0, 0, NoItem, NoAddr, {})
    /\ UNCHANGED <<root, len, panicked, ref, load, iter, drops, released,
                   turn>>

\* RawBTree::clone
Clone ==
    /\ ~clone.made
    /\ ~panicked
    /\ CloneMade(CloneTree(nodes, root))

\* The nodes under id that are allocated.
RECURSIVE Allocated(_, _)
Allocated(ns, id) ==
    IF id \notin DOMAIN ns THEN {}
    ELSE {id} \cup UNION {Allocated(ns, Children(ns[id])[i]) :
                              i \in 1..Len(Children(ns[id]))}

\* The addresses of the elements of the original.
OwnAddresses ==
    {a \in [node : Allocated(nodes, root), offset : 0..M] :
         a.offset < ItemCount(nodes[a.node])}

\* One operation on the original once it is cloned: it is mutated, or
\* dropped.
AfterClone ==
    /\ last.op = "clone"
    /\ \/ \E k \in Keys, v \in Values : Insert(k, v)
       \/ \E k \in Keys : Remove(k)
       \/ \E addr \in OwnAddresses : RemoveAtAddr(addr)
       \/ Clear

NextClone ==
    \/ BuildInsert
    \/ BuildRemove
    \/ Clone
    \/ AfterClone

SpecClone == Init /\ [][NextClone]_vars

\* ------------------------------------------------- rebalance, turn by turn

\* The variables of the loop of rebalance but the storage.
LoopKept(r) ==
    [root |-> r.root, id |-> r.id, addr |-> r.addr, balance |-> r.balance,
     events |-> r.events, panic |-> r.panic, done |-> r.done]

\* The variables of the loop of the running call.
Loop ==
    [nodes |-> nodes, root |-> turn.loop[1].root, id |-> turn.loop[1].id,
     addr |-> turn.loop[1].addr, balance |-> turn.loop[1].balance,
     events |-> turn.loop[1].events, panic |-> turn.loop[1].panic,
     done |-> turn.loop[1].done]

\* The operation op has changed a node and calls rebalance: item is the
\* element it has taken out and will return, r holds the variables of the
\* loop as rebalance is entered.
RebalanceEntered(op, item, r, panic) ==
    /\ nodes' = r.nodes
    /\ turn' = [phase |-> "running", op |-> op, item |-> item,
                step |-> "enter", loop |-> <<LoopKept(r)>>]
    /\ panicked' = panic
    /\ UNCHANGED <<root, len, last, load, iter, drops, released, clone>>

\* RawBTree::insert of a key that is not stored into a tree that has a
\* root, up to the call of rebalance in insert_exactly_at.
InsertEnter(k) ==
    /\ turn = NoTurn
    /\ iter.kind = "none"
    /\ ~clone.made
    /\ ~panicked
    /\ root # NoNode
    /\ k \notin DOMAIN ref
    /\ ref' = RefInsert(ref, k, 1)
    /\ RebalanceEntered(
           "insert", NoItem,
           RebalanceEnter(
               InsertedInto(nodes, AddressOf(nodes, root, k).addr,
                            [key |-> k, value |-> 1], NoNode),
               root, AddressOf(nodes, root, k).addr.node,
               AddressOf(nodes, root, k).addr),
           NodeInsertPanics(nodes[AddressOf(nodes, root, k).addr.node],
                            AddressOf(nodes, root, k).addr.offset, NoNode))

\* Storage::remove_at on the result lr of leaf_remove, up to the call of
\* rebalance.
RemoveEnterAt(addr, lr) ==
    IF lr.tag = "item"
    THEN RebalanceEntered(
             "remove", lr.item,
             RebalanceEnter(TakenFromLeaf(nodes, addr, lr), root, addr.node,
                            addr),
             FALSE)
    ELSE RebalanceEntered(
             "remove", Item(nodes[addr.node], addr.offset),
             RebalanceEnter(
                 TakenFromInternal(nodes, addr,
                                   RightmostLeafOf(nodes, lr.child)),
                 root, RightmostLeafOf(nodes, lr.child),
                 NextItemOrBackAddress(nodes, addr)),
             NextItemOrBackAddress(nodes, addr) = NoAddr)

\* RawBTree::remove of a stored key, up to the call of rebalance in
\* remove_at.
RemoveEnter(k) ==
    /\ turn = NoTurn
    /\ iter.kind = "none"
    /\ ~clone.made
    /\ ~panicked
    /\ k \in DOMAIN ref
    /\ ref' = RefRemove(ref, k)
    /\ RemoveEnterAt(AddressOf(nodes, root, k).addr,
                     LeafRemove(nodes[AddressOf(nodes, root, k).addr.node],
                                AddressOf(nodes, root, k).addr.offset))

\* The branch a turn has taken: the event it has recorded, or "break" when
\* the loop has broken on a node it leaves as it is.
StepOf(t) == IF t.events = {} THEN "break" ELSE CHOOSE e \in t.events : TRUE

\* The loop has taken the turn t from r.  When it breaks, rebalance returns
\* and the operation stores the root and counts the element.
RebalanceTurned(r, t) ==
    /\ nodes' = t.nodes
    /\ turn' = [turn EXCEPT
                    !.phase = IF t.done \/ t.panic THEN "returned"
                              ELSE "running",
                    !.step = StepOf(t),
                    !.loop = <<LoopKept([t EXCEPT !.events =
                                                     @ \cup r.events])>>]
    /\ panicked' = t.panic
    /\ root' = IF t.done \/ t.panic THEN t.root ELSE root
    /\ len' = IF t.done \/ t.panic
              THEN (IF turn.op = "insert" THEN len + 1 ELSE len - 1)
              ELSE len
    /\ UNCHANGED <<last, ref, load, iter, drops, released, clone>>

\* One turn of the loop of rebalance.
RebalanceStep ==
    /\ turn.phase = "running"
    /\ ~panicked
    /\ RebalanceTurned(Loop, RebalanceTurn([Loop EXCEPT !.events = {}]))

NextTurns ==
    \/ BuildInsert
    \/ BuildRemove
    \/ \E k \in Keys : InsertEnter(k)
    \/ \E k \in Keys : RemoveEnter(k)
    \/ RebalanceStep

SpecTurns == Init /\ [][NextTurns]_vars

\* ------------------------------------------- remove_at, then insert_at

\* Storage::remove_at has returned r for the key k: the caller stores the
\* root and counts the element, as RawBTree::remove_at does, and keeps the
\* item and new_addr.  before holds the elements and len of the tree the
\* removal found.
TakenAt(k, r) ==
    /\ nodes' = r.nodes
    /\ root' = r.new_root
    /\ len' = len - 1
    /\ panicked' = (r.panic \/ ~r.removed)
    /\ ref' = RefRemove(ref, k)
    /\ last' = [Op("remove_at", k, 0, r.item, r.new_addr, r.events)
                   EXCEPT !.before = [tree |-> Elements(nodes, root),
                                      len |-> len]]
    /\ turn' = [NoTurn EXCEPT !.phase = "returned", !.op = "remove_at",
                              !.item = r.item]
    /\ UNCHANGED <<load, iter, drops, released, clone>>

\* Storage::remove_at on an occupied address of a built tree.
TakeAt(addr) ==
    /\ turn = NoTurn
    /\ iter.kind = "none"
    /\ ~clone.made
    /\ ~panicked
    /\ GetAt(nodes, addr).key \in DOMAIN ref
    /\ TakenAt(GetAt(nodes, addr).key, RemoveAt(nodes, root, addr))

\* Storage::insert_at has returned r: the caller stores the root and
\* counts the element.
InsertedBack(r) ==
    /\ nodes' = r.nodes
    /\ root' = r.root
    /\ len' = len + 1
    /\ panicked' = r.panic
    /\ ref' = RefInsert(ref, last.key, last.ret.value)
    /\ last' = [Op("insert_at", last.key, last.ret.value, NoItem, r.addr,
                   r.events)
                   EXCEPT !.before = last.before]
    /\ turn' = [turn EXCEPT !.op = "insert_at"]
    /\ UNCHANGED <<load, iter, drops, released, clone>>

\* Storage::insert_at of the item remove_at has returned, at new_addr.
InsertBack ==
    /\ turn.op = "remove_at"
    /\ ~panicked
    /\ InsertedBack(StorageInsertAt(nodes, root, last.addr, last.ret))

NextReinsert ==
    \/ BuildInsert
    \/ BuildRemove
    \/ \E addr \in OccupiedAddresses : TakeAt(addr)
    \/ InsertBack

SpecReinsert == Init /\ [][NextReinsert]_vars

\* ------------------------------------------------------------ normalize

\* The addresses normalize is called with: in an allocated node, Before,
\* an offset of an item, the item count, or one past it.
NormalizeInputs ==
    {a \in [node : DOMAIN nodes, offset : {Before} \cup 0..(M + 2)] :
         a.offset <= ItemCount(nodes[a.node]) + 1}

\* Storage::normalize on a built tree: turn keeps the address given and
\* last the address returned.
NormalizeAt(addr) ==
    /\ turn = NoTurn
    /\ iter.kind = "none"
    /\ ~clone.made
    /\ ~panicked
    /\ last' = Op("normalize", 0, 0, NoItem, Normalize(nodes, addr), {})
    /\ turn' = [NoTurn EXCEPT !.phase = "returned", !.op = "normalize",
                              !.loop = <<addr>>]
    /\ UNCHANGED <<nodes, root, len, panicked, ref, load, iter, drops,
                   released, clone>>

NextNormalize ==
    \/ BuildInsert
    \/ BuildRemove
    \/ \E addr \in NormalizeInputs : NormalizeAt(addr)

SpecNormalize == Init /\ [][NextNormalize]_vars

\* ------------------------------------------------------ clear, then insert

\* The closure of RawBTree::clear over the nodes in the order
\* visit_from_leaves visits them: BoxDrop::drop_node frees the box of the
\* node, which drops the items the node holds.
RECURSIVE ClearVisit(_, _, _)
ClearVisit(f, visited, i) ==
    IF i > Len(visited) THEN f
    ELSE ClearVisit(ForgetVisited(f, visited[i], f.nodes[visited[i]]),
                    visited, i + 1)

\* RawBTree::clear, once the dropper has f: the root and len are reset.
Cleared(f) ==
    /\ nodes' = f.nodes
    /\ root' = NoNode
    /\ len' = 0
    /\ ref' = EmptyMap
    /\ load' = "none"
    /\ drops' = AddDrops(drops, f.dropped)
    /\ released' = f.released
    /\ last' = Op("clear", 0, 0, NoItem, NoAddr, {})
    /\ turn' = [NoTurn EXCEPT !.phase = "returned", !.op = "clear"]
    /\ UNCHANGED <<panicked, iter, clone>>

\* RawBTree::clear on a built tree, with the drops and the releases of the
\* dropper counted.
ClearBuilt ==
    /\ turn = NoTurn
    /\ iter.kind = "none"
    /\ ~clone.made
    /\ ~panicked
    /\ Cleared(ClearVisit([nodes |-> nodes, dropped |-> <<>>,
                           released |-> <<>>],
                          VisitFromLeaves(nodes, root), 1))

\* RawBTree::insert on the tree clear has left.
InsertCleared(k, v) ==
    /\ turn.op = "clear"
    /\ ~panicked
    /\ ref' = RefInsert(ref, k, v)
    /\ InsertAt(k, v, AddressOf(nodes, root, k))
    /\ turn' = [turn EXCEPT !.op = "insert", !.item = [key |-> k, value |-> v]]
    /\ UNCHANGED <<load, iter, drops, released, clone>>

NextClear ==
    \/ BuildInsert
    \/ BuildRemove
    \/ ClearBuilt
    \/ \E k \in Keys, v \in Values : InsertCleared(k, v)

SpecClear == Init /\ [][NextClear]_vars

\* ------------------------------------------------------------- validation

\* The handles reachable from a node through child lists.
RECURSIVE Subtree(_, _)
Subtree(ns, id) ==
    {id} \cup UNION {Subtree(ns, Children(ns[id])[i]) :
                         i \in 1..Len(Children(ns[id]))}

Reachable(ns, r) == IF r = NoNode THEN {} ELSE Subtree(ns, r)

\* The keys stored under a node.
KeysUnder(ns, id) ==
    UNION {{NodeItems(ns[x])[i].key : i \in 1..ItemCount(ns[x])} :
               x \in Subtree(ns, id)}

\* The depths at which the leaves under a node lie.
RECURSIVE LeafDepths(_, _)
LeafDepths(ns, id) ==
    IF IsLeaf(ns[id]) THEN {0}
    ELSE {d + 1 : d \in UNION {LeafDepths(ns, Children(ns[id])[i]) :
                                   i \in 1..Len(Children(ns[id]))}}

StrictlyIncreasing(items) ==
    \A i \in 1..Len(items) - 1 : KeyCmp(items[i], items[i + 1].key) < 0

\* How many times a handle occurs in a child list.
Occurrences(n, id) ==
    Cardinality({i \in 1..Len(Children(n)) : Children(n)[i] = id})

Height3 ==
    /\ root # NoNode
    /\ ~IsLeaf(nodes[root])
    /\ ~IsLeaf(nodes[nodes[root].first_child])

\* ----------------------------------------------------------------- claims

\* C1: after every public mutating operation, every non-root node is
\* balanced: a leaf holds between U and M items, an internal node between U
\* and M - 1 items; only the root may hold fewer than U.
C1_NonRootBalanced ==
    \A id \in Reachable(nodes, root) \ {root} :
        IF IsLeaf(nodes[id])
        THEN UNDERFLOW <= ItemCount(nodes[id]) /\ ItemCount(nodes[id]) <= M
        ELSE UNDERFLOW <= ItemCount(nodes[id]) /\
             ItemCount(nodes[id]) <= M - 1

\* A removal has merged two leaves under a non-root internal node and the
\* tree still has internal nodes below the root.
C1_Witness ==
    /\ Height3
    /\ last.op = "remove"
    /\ "merge" \in last.events
    /\ ~panicked

\* C2: the in-order sequence of the elements is strictly increasing, the
\* items of every internal node are strictly increasing, and each separator
\* is greater than every element under the child on its left and less than
\* every element under the child on its right.
C2_Ordered ==
    /\ StrictlyIncreasing(Elements(nodes, root))
    /\ \A id \in Reachable(nodes, root) :
           ~IsLeaf(nodes[id]) =>
               /\ StrictlyIncreasing(NodeItems(nodes[id]))
               /\ \A i \in 1..ItemCount(nodes[id]) :
                      LET s == NodeItems(nodes[id])[i].key
                      IN  /\ \A k \in KeysUnder(nodes,
                                               Children(nodes[id])[i]) :
                                 k < s
                          /\ \A k \in KeysUnder(nodes,
                                               Children(nodes[id])[i + 1]) :
                                 s < k

\* An insertion has split a leaf under a non-root internal node, which
\* took the median as a new separator without splitting.
C2_Witness ==
    /\ Height3
    /\ last.op = "insert"
    /\ last.events = {"split"}

\* C3: all leaves are at the same depth.
C3_LeavesSameDepth ==
    root # NoNode => Cardinality(LeafDepths(nodes, root)) = 1

\* A removal has merged two leaves and then rotated an item and a child
\* between two internal nodes.
C3_Witness ==
    /\ Height3
    /\ last.op \in {"remove", "remove_at"}
    /\ "merge" \in last.events
    /\ "rotate_left" \in last.events

\* C4: the root has no parent; every other node's parent handle names an
\* allocated node whose child list contains the node exactly once, and no
\* other node lists it.
C4_ParentLinks ==
    /\ root # NoNode => nodes[root].parent = NoNode
    /\ \A id \in Reachable(nodes, root) \ {root} :
           /\ nodes[id].parent \in DOMAIN nodes
           /\ Occurrences(nodes[nodes[id].parent], id) = 1
           /\ \A p \in DOMAIN nodes :
                  p # nodes[id].parent => Occurrences(nodes[p], id) = 0

\* A removal has merged two internal nodes and collapsed the root: the
\* children of the released node have a new parent, the new root has none.
C4_Witness ==
    /\ last.op \in {"remove", "remove_at"}
    /\ "root_collapse" \in last.events
    /\ ~IsLeaf(nodes[root])

\* C5: len() is the number of elements a full in-order traversal yields.
C5_LenIsCount == len = Len(Elements(nodes, root))

\* remove_at has taken an element out of a tree of more than M elements and
\* the rebalancing has rotated an item to the right.
C5_Witness ==
    /\ last.op = "remove_at"
    /\ len >= M + 1
    /\ "rotate_right" \in last.events


\* ------------------------------------------------ validation, as the code

\* Leaf::validate and Internal::validate: TRUE when no check panics.
NodeValidate(n, parent, min, max) ==
    /\ n.parent = parent
    /\ IF min # NoItem \/ max # NoItem
       THEN Balance(n).tag = "Balanced"
       ELSE IsLeaf(n) \/ ItemCount(n) # 0
    /\ StrictlyIncreasing(NodeItems(n))
    /\ (min # NoItem /\ ItemCount(n) > 0) =>
           KeyCmp(min, NodeItems(n)[1].key) < 0
    /\ (max # NoItem /\ ItemCount(n) > 0) =>
           KeyCmp(max, NodeItems(n)[ItemCount(n)].key) > 0

\* Internal::separators
Separators(n, index) ==
    [min |-> IF index > 0 THEN n.other_children[index].item ELSE NoItem,
     max |-> IF index < Len(n.other_children)
             THEN n.other_children[index + 1].item ELSE NoItem]

\* RawBTree::validate_node: whether no check panics, and the depth.
RECURSIVE ValidateNode(_, _, _, _, _)
ValidateNode(ns, id, parent, min, max) ==
    LET n == ns[id]
        cs == Children(n)
        sub[i \in 1..Len(cs)] ==
            LET sep == Separators(n, i - 1)
            IN  ValidateNode(ns, cs[i], id,
                             IF sep.min # NoItem THEN sep.min
                             ELSE IF i = 1 THEN min ELSE NoItem,
                             IF sep.max # NoItem THEN sep.max
                             ELSE IF i = Len(cs) THEN max ELSE NoItem)
    IN  [ok |-> /\ NodeValidate(n, parent, min, max)
                /\ \A i \in 1..Len(cs) :
                       sub[i].ok /\ sub[i].depth = sub[1].depth,
         depth |-> IF Len(cs) = 0 THEN 0 ELSE sub[1].depth + 1]

\* RawBTree::validate
Validate(ns, r) ==
    r = NoNode \/ ValidateNode(ns, r, NoNode, NoItem, NoItem).ok

\* The reference map as the sequence of its elements in key order.
RefSorted(f) ==
    LET ks == SelectSeq([i \in 1..MaxKey |-> i], LAMBDA i : i \in DOMAIN f)
    IN  [i \in 1..Len(ks) |-> RefGet(f, ks[i])]

\* The keys of the elements of the tree.
StoredKeys(ns, r) ==
    LET es == Elements(ns, r) IN {es[i].key : i \in 1..Len(es)}

\* The node set, item counts, child and parent links of the tree.
Shape(ns) ==
    [id \in DOMAIN ns |->
        [kind |-> ns[id].kind, parent |-> ns[id].parent,
         item_count |-> ItemCount(ns[id]), children |-> Children(ns[id])]]

\* C6: run side by side with a reference sorted map, insert and remove
\* return what the reference returns, get returns the reference's element
\* for every key, and the in-order traversal is the reference's sorted
\* contents.
C6_RefinesSortedMap ==
    /\ last.op \in {"insert", "remove"} => last.ret = last.ref_ret
    /\ Elements(nodes, root) = RefSorted(ref)
    /\ \A k \in Keys : Get(nodes, root, k) = RefGet(ref, k)

\* A remove has returned an element that an insert had replaced with a
\* value other than the first one.
C6_Witness ==
    /\ last.op = "remove"
    /\ last.ret # NoItem
    /\ last.ret.value # 1
    /\ len >= 2

\* C7: after insert(e) of an element whose key was not stored, get(key(e))
\* returns e and every element retrievable before is retrievable with the
\* same value.
C7_InsertThenGet ==
    [][(last'.op = "insert" /\ last'.key \notin StoredKeys(nodes, root)) =>
           /\ Get(nodes', root', last'.key) =
                  [key |-> last'.key, value |-> last'.value]
           /\ \A j \in Keys :
                  Get(nodes, root, j) # NoItem =>
                      Get(nodes', root', j) = Get(nodes, root, j)]_vars

\* An insert of a new key has split a leaf and its parent, up to a new
\* root.
C7_Witness ==
    /\ last.op = "insert"
    /\ last.ret = NoItem
    /\ last.events = {"split", "root_split"}
    /\ Height3

\* C8: insert returns None and len grows by one when no stored element is
\* equal to the new one; otherwise it returns the stored element, puts the
\* new one in its place and leaves len and the shape of the tree unchanged.
C8_InsertResult ==
    [][last'.op = "insert" =>
           IF last'.key \notin StoredKeys(nodes, root)
           THEN last'.ret = NoItem /\ len' = len + 1
           ELSE /\ last'.ret # NoItem
                /\ LET es == Elements(nodes, root)
                   IN  \E i \in 1..Len(es) :
                           /\ es[i] = last'.ret
                           /\ Elements(nodes', root') =
                                  [es EXCEPT ![i] = [key |-> last'.key,
                                                     value |-> last'.value]]
                /\ len' = len
                /\ root' = root
                /\ Shape(nodes') = Shape(nodes)]_vars

\* An insert has replaced an item of an internal node by an element of
\* another value.
C8_Witness ==
    /\ last.op = "insert"
    /\ last.ret # NoItem
    /\ last.ret.value # last.value
    /\ root # NoNode
    /\ ~IsLeaf(nodes[root])
    /\ \E i \in 1..ItemCount(nodes[root]) :
           NodeItems(nodes[root])[i].key = last.key

\* C9: remove(k) of a stored key returns the stored element, len decreases
\* by one, the tree passes the validation, get(k) returns None and every
\* other element stays retrievable.
C9_RemoveStored ==
    [][(last'.op = "remove" /\ last'.key \in StoredKeys(nodes, root)) =>
           /\ ~panicked'
           /\ last'.ret # NoItem
           /\ last'.ret = Get(nodes, root, last'.key)
           /\ len' = len - 1
           /\ Validate(nodes', root')
           /\ Get(nodes', root', last'.key) = NoItem
           /\ \A j \in Keys \ {last'.key} :
                  Get(nodes', root', j) = Get(nodes, root, j)]_vars

\* A remove has taken an item out of an internal node and the leaf that
\* gave its last item as the replacement has been merged with a sibling.
C9_Witness ==
    /\ last.op = "remove"
    /\ last.ret # NoItem
    /\ "internal" \in last.events
    /\ "merge" \in last.events

\* C10: is_empty() is true exactly when len() is 0, and exactly when the
\* tree stores no element.
C10_EmptyIffLenZero ==
    /\ (root = NoNode) <=> (len = 0)
    /\ (root = NoNode) <=>
           \A id \in Reachable(nodes, root) : ItemCount(nodes[id]) = 0
    /\ (root = NoNode) <=> (DOMAIN ref = {})

\* A removal has taken the last element out of the tree and the root leaf
\* has been released.
C10_Witness ==
    /\ last.op \in {"remove", "remove_at"}
    /\ "root_release" \in last.events
    /\ root = NoNode
    /\ len = 0

\* The address is occupied: its node is allocated and its offset is below
\* the item count.
Occupied(ns, a) ==
    /\ a # NoAddr
    /\ a.node \in DOMAIN ns
    /\ a.offset # Before
    /\ a.offset < ItemCount(ns[a.node])

\* The address is the back address one past the end of its node.
OnePastEnd(ns, a) ==
    /\ a # NoAddr
    /\ a.node \in DOMAIN ns
    /\ a.offset = ItemCount(ns[a.node])

\* C17: for a gap address returned by address_of for an absent key,
\* insert_exactly_at and insert_at return an address that is occupied and
\* holds the element just inserted, also through cascaded splits up to a
\* root split.
C17_InsertedAddress ==
    [][(last'.op = "insert" /\ last'.ref_ret = NoItem) =>
          LET item == [key |-> last'.key, value |-> last'.value]
              gap == AddressOf(nodes, root, last'.key)
              at == StorageInsertAt(nodes, root, gap.addr, item)
          IN  /\ ~gap.ok
              /\ ~panicked'
              /\ Occupied(nodes', last'.addr)
              /\ GetAt(nodes', last'.addr) = item
              /\ ~at.panic
              /\ Occupied(at.nodes, at.addr)
              /\ GetAt(at.nodes, at.addr) = item]_vars

\* An insertion whose splits went up to the root has returned an address
\* outside the leaf the element was inserted in.
C17_Witness ==
    /\ last.op = "insert"
    /\ last.ref_ret = NoItem
    /\ last.events = {"split", "root_split"}
    /\ Occupied(nodes, last.addr)
    /\ GetAt(nodes, last.addr).key = last.key
    /\ ~IsLeaf(nodes[last.addr.node])

\* The keys stored after the last operation that follow its key.
Successors == {k \in DOMAIN ref : k > last.key}

\* The address holds the least of the keys that follow the key of the last
\* operation.
HoldsSuccessor(a) ==
    /\ Occupied(nodes, a)
    /\ GetAt(nodes, a).key \in Successors
    /\ \A j \in Successors : GetAt(nodes, a).key <= j

\* C18 as stated: after remove_at the returned new_addr holds the in-order
\* successor of the removed element, or is a one-past-end back address.
C18_Original ==
    (last.op \in {"remove", "remove_at"} /\ last.ref_ret # NoItem) =>
        HoldsSuccessor(last.addr) \/ OnePastEnd(nodes, last.addr)

\* C18 amended: after remove_at the returned new_addr is None when the
\* removal has emptied the tree; otherwise it holds the in-order successor
\* of the removed element, or is the back address one past the end of its
\* node, from which normalize leads to the successor, or to None when the
\* removed element was the greatest.
C18_RemovedAddress ==
    (last.op \in {"remove", "remove_at"} /\ last.ref_ret # NoItem) =>
        /\ ~panicked
        /\ IF root = NoNode THEN last.addr = NoAddr
           ELSE /\ \/ HoldsSuccessor(last.addr)
                   \/ OnePastEnd(nodes, last.addr)
                /\ IF Successors = {}
                   THEN Normalize(nodes, last.addr) = NoAddr
                   ELSE HoldsSuccessor(Normalize(nodes, last.addr))

\* A removal from an internal node, followed by merges and a root collapse,
\* has returned an address that holds the successor.
C18_Witness ==
    /\ last.op \in {"remove", "remove_at"}
    /\ last.ref_ret # NoItem
    /\ {"merge", "root_collapse"} \subseteq last.events
    /\ HoldsSuccessor(last.addr)

\* C11 as stated: inserting an element whose key is not stored and then
\* removing it restores the tree to structural equality with the tree
\* before the insertion: the same shapes, the same items in the same nodes
\* at the same offsets, the same len.
C11_Original ==
    [][last'.undo =>
          /\ TreeStructure(nodes', root') = last.before.tree
          /\ len' = last.before.len]_vars

\* C11 amended: inserting an element whose key is not stored and then
\* removing it restores the in-order elements and len; it restores the
\* tree to structural equality when the insertion has split no node.
C11_InsertRemoveRestores ==
    [][last'.undo =>
          /\ ~panicked'
          /\ len' = last.before.len
          /\ Elements(nodes', root') = TreeStructureItems(last.before.tree)
          /\ last.events = {} =>
                 TreeStructure(nodes', root') = last.before.tree]_vars

\* The element that the operation before had inserted, splitting the root
\* leaf, has been removed, and the root is still an internal node.
C11_Witness ==
    /\ last.undo
    /\ last.ret # NoItem
    /\ len = M
    /\ root # NoNode
    /\ ~IsLeaf(nodes[root])

\* The sequence in the reverse order.
Reverse(q) == [i \in 1..Len(q) |-> q[Len(q) + 1 - i]]

\* The occupied addresses of the nodes under the root.
StoredAddresses ==
    {a \in [node : Reachable(nodes, root), offset : 0..M] :
         a.offset < ItemCount(nodes[a.node])}

\* The forward loop: it yields the stored elements in ascending order, one
\* from each occupied address, and ends with no next address.
ForwardInOrder(run) ==
    /\ ~run.panic
    /\ run.items = RefSorted(ref)
    /\ run.it.addr = NoAddr
    /\ run.it.len = 0
    /\ {run.addrs[i] : i \in 1..Len(run.addrs)} = StoredAddresses
    /\ Len(run.addrs) = len
    /\ Cardinality(StoredAddresses) = len

\* The reverse loop: it yields the same elements in the reverse order.
BackwardInOrder(run) ==
    /\ ~run.panic
    /\ run.items = Reverse(RefSorted(ref))
    /\ run.it.len = 0

\* C12: for every reachable tree, iter() yields every stored element once
\* in ascending order and iter().rev() yields them in the reverse order;
\* the walk from first_item_address by next_item_address visits every
\* occupied address once, in order, and then returns None.
C12_IterInOrder ==
    /\ ForwardInOrder(IterRun(nodes, IterStart(nodes, root, len)))
    /\ BackwardInOrder(IterRunBack(nodes, root, IterStart(nodes, root, len)))

\* A tree of three levels, left by a removal that merged nodes, in which
\* both loops go up and down through the internal nodes.
C12_Witness ==
    /\ Height3
    /\ "merge" \in last.events
    /\ Len(IterRunBack(nodes, root, IterStart(nodes, root, len)).items) = len
    /\ len >= 4 * M

\* The number of elements the iterator has yielded.
Yielded == Len(iter.front) + Len(iter.back)

\* The keys of a sequence of items.
KeysOf(q) == {q[i].key : i \in 1..Len(q)}

Ascending(q) == \A i \in 1..(Len(q) - 1) : q[i].key < q[i + 1].key

Descending(q) == \A i \in 1..(Len(q) - 1) : q[i].key > q[i + 1].key

\* C13: for any interleaving of next and next_back on one iterator over a
\* tree of n elements no call panics, every item yielded is an element of
\* the tree, none is yielded twice, those of next come in ascending order
\* and those of next_back in descending order, a call returns None only
\* after n yields, and after n yields both calls return None.
C13_BothEnds ==
    iter.kind \in {"iter", "into_iter"} =>
        /\ ~panicked
        /\ \A i \in 1..Len(iter.front) :
               iter.front[i] = RefGet(ref, iter.front[i].key)
        /\ \A i \in 1..Len(iter.back) :
               iter.back[i] = RefGet(ref, iter.back[i].key)
        /\ Ascending(iter.front)
        /\ Descending(iter.back)
        /\ KeysOf(iter.front) \cap KeysOf(iter.back) = {}
        /\ Yielded <= Cardinality(DOMAIN ref)
        /\ (iter.call \in {"next", "next_back"} /\ iter.ret = NoItem)
               => Yielded = Cardinality(DOMAIN ref)
        /\ Yielded = Cardinality(DOMAIN ref)
               => /\ IterNext(nodes, iter.it).item = NoItem
                  /\ IterNextBack(nodes, root, iter.it).item = NoItem
                  /\ ~IterNext(nodes, iter.it).panic
                  /\ ~IterNextBack(nodes, root, iter.it).panic

\* An iterator over a tree of three levels that holds every key has
\* yielded more than M items from each end, and a call of next after the
\* last yield has returned None.
C13_Witness ==
    /\ iter.kind = "into_iter"
    /\ Height3
    /\ DOMAIN ref = Keys
    /\ Len(iter.front) > M
    /\ Len(iter.back) > M
    /\ Yielded = MaxKey
    /\ iter.call = "next"
    /\ iter.ret = NoItem

\* C14: at every step of an iteration, before the first call and after
\* each next or next_back, size_hint returns (remaining, Some(remaining))
\* where remaining is the number of elements not yet yielded: len() at the
\* start and 0 once a call has returned None.
C14_SizeHint ==
    iter.kind \in {"iter", "into_iter"} =>
        /\ SizeHint(iter.it) =
               <<Cardinality(DOMAIN ref) - Yielded,
                 Some(Cardinality(DOMAIN ref) - Yielded)>>
        /\ iter.call = "new" => SizeHint(iter.it) = <<len, Some(len)>>
        /\ (iter.call \in {"next", "next_back"} /\ iter.ret = NoItem)
               => SizeHint(iter.it) = <<0, Some(0)>>

\* An iterator over a tree of SmallKey elements has yielded items from
\* both ends and some remain.
C14_Witness ==
    /\ iter.kind = "iter"
    /\ len = SmallKey
    /\ Len(iter.front) >= 2
    /\ Len(iter.back) >= 2
    /\ SizeHint(iter.it)[1] = SmallKey - Yielded
    /\ SizeHint(iter.it)[1] > 0

\* C15: consuming a tree by value drops every element exactly once,
\* whatever mix of next and next_back is used and also when the iterator
\* is dropped before its end: while it runs exactly the elements yielded
\* have been dropped, once each, and its drop, which does not panic, drops
\* the others once, drops none that was yielded again, releases every
\* node of the tree once and leaves no node allocated.
C15_DropsOnce ==
    [][/\ iter'.kind = "into_iter" =>
              \A k \in Keys :
                  drops'[k] = IF k \in KeysOf(iter'.front) \cup
                                       KeysOf(iter'.back)
                              THEN 1 ELSE 0
       /\ (iter.kind = "into_iter" /\ iter'.kind = "dropped") =>
              /\ ~panicked'
              /\ \A k \in Keys :
                     drops'[k] = IF k \in DOMAIN ref THEN 1 ELSE 0
              /\ {released'[i] : i \in 1..Len(released')} = DOMAIN nodes
              /\ Cardinality(DOMAIN nodes) = Len(released')
              /\ DOMAIN nodes' = {}
              /\ root' = NoNode
              /\ len' = 0]_vars

\* An iterator that has yielded items from both ends of a tree of three
\* levels was dropped before its end.
C15_Witness ==
    /\ iter.kind = "dropped"
    /\ Len(iter.front) >= 2
    /\ Len(iter.back) >= 2
    /\ Yielded < Cardinality(DOMAIN ref)
    /\ Len(released) > M + 2
    /\ \A k \in DOMAIN ref : drops[k] = 1
    /\ DOMAIN nodes = {}

\* The handles the nodes of the clone hold: the parent and the children
\* of every node that can be reached from its root.
CloneHandles ==
    UNION {{nodes[id].parent} \cup
           {Children(nodes[id])[i] : i \in 1..Len(Children(nodes[id]))} :
               id \in Allocated(nodes, clone.root)} \ {NoNode}

\* C16: the tree clone() returns shares no node with the original: every
\* child and parent handle of its nodes names an allocated node of the
\* clone and none of the original, it has the len and the elements in
\* order the original had, and when the original has been mutated or
\* dropped since, it still passes the validation and every element is
\* still retrieved.
C16_CloneIsDisjoint ==
    clone.made =>
        /\ ~panicked
        /\ CloneHandles \subseteq DOMAIN nodes
        /\ CloneHandles \subseteq Allocated(nodes, clone.root)
        /\ Allocated(nodes, clone.root) \cap Allocated(nodes, root) = {}
        /\ Validate(nodes, clone.root)
        /\ clone.len = Cardinality(DOMAIN clone.ref)
        /\ Elements(nodes, clone.root) = RefSorted(clone.ref)
        /\ \A k \in Keys :
               Get(nodes, clone.root, k) = RefGet(clone.ref, k)
        /\ last.op = "clone" =>
               /\ clone.len = len
               /\ Elements(nodes, clone.root) = Elements(nodes, root)

\* The original, a tree of three levels, was dropped after the clone, which
\* still holds every key.
C16_Witness ==
    /\ clone.made
    /\ last.op = "clear"
    /\ root = NoNode
    /\ clone.len = MaxKey
    /\ Cardinality(Allocated(nodes, clone.root)) > M + 2
    /\ Len(Elements(nodes, clone.root)) = MaxKey

\* C19: replace_at(addr, e), as insert calls it on the address of a stored
\* element, returns the element that was at addr and changes nothing else:
\* the allocated nodes, the item count, the children and the parent of
\* every node, the root and len stay as they were, the address holds e,
\* and every other occupied address holds the element it held.
C19_ReplaceAtFrame ==
    [][(last'.op = "insert" /\ last'.key \in DOMAIN ref) =>
           /\ AddressOf(nodes, root, last'.key).ok
           /\ last'.ret = GetAt(nodes, AddressOf(nodes, root, last'.key).addr)
           /\ last'.ret = RefGet(ref, last'.key)
           /\ GetAt(nodes', AddressOf(nodes, root, last'.key).addr) =
                  [key |-> last'.key, value |-> last'.value]
           /\ DOMAIN nodes' = DOMAIN nodes
           /\ \A id \in DOMAIN nodes :
                  /\ nodes'[id].kind = nodes[id].kind
                  /\ ItemCount(nodes'[id]) = ItemCount(nodes[id])
                  /\ Children(nodes'[id]) = Children(nodes[id])
                  /\ nodes'[id].parent = nodes[id].parent
           /\ root' = root
           /\ len' = len
           /\ ~panicked'
           /\ \A b \in OccupiedAddresses :
                  b # AddressOf(nodes, root, last'.key).addr =>
                      GetAt(nodes', b) = GetAt(nodes, b)]_vars

\* An insert has replaced, by an element of another value, an item that is
\* not the first of its node, a leaf under the root of a tree of three
\* levels.
C19_Witness ==
    /\ last.op = "insert"
    /\ last.ret # NoItem
    /\ last.ret.value # last.value
    /\ Height3
    /\ AddressOf(nodes, root, last.key).ok
    /\ AddressOf(nodes, root, last.key).addr.offset > 0
    /\ IsLeaf(nodes[AddressOf(nodes, root, last.key).addr.node])

\* The stored keys above a key.
KeysAbove(k) == {j \in DOMAIN ref : j > k}

\* The address holds the least of the keys ks, or is no address when there
\* is none.
HoldsLeast(a, ks) ==
    IF ks = {} THEN a = NoAddr
    ELSE /\ Occupied(nodes, a)
         /\ GetAt(nodes, a).key \in ks
         /\ \A j \in ks : GetAt(nodes, a).key <= j

\* The result a of address_of for a key that is not stored: no address when
\* the tree has no root, else a gap of a leaf of the tree with the lesser
\* keys before it and the greater keys after it.
IsGapOf(k, a) ==
    IF root = NoNode THEN a.addr = NoAddr
    ELSE /\ a.addr # NoAddr
         /\ a.addr.node \in Reachable(nodes, root)
         /\ IsLeaf(nodes[a.addr.node])
         /\ a.addr.offset \in 0..ItemCount(nodes[a.addr.node])
         /\ a.addr.offset > 0 =>
                Item(nodes[a.addr.node], a.addr.offset - 1).key < k
         /\ HoldsLeast(Normalize(nodes, a.addr), KeysAbove(k))

\* The result a of address_of for the key k is right.
AddressOfIsRight(k, a) ==
    /\ ~a.panic
    /\ a.ok <=> k \in DOMAIN ref
    /\ a.ok => /\ Occupied(nodes, a.addr)
               /\ GetAt(nodes, a.addr) = RefGet(ref, k)
    /\ ~a.ok => IsGapOf(k, a)
    /\ (~a.ok /\ a.addr = NoAddr) <=> root = NoNode

\* C20: for every reachable tree and every probe key, address_of returns
\* Ok(addr) exactly when an element equal to the key is stored, and then
\* addr is occupied and holds that element; otherwise it returns Err with
\* the address of a gap in a leaf where the key keeps the order of the
\* elements, and Err(None) exactly when the tree has no root.
C20_AddressOf ==
    \A k \in Keys : AddressOfIsRight(k, AddressOf(nodes, root, k))

\* In a tree of three levels the search finds one stored key in the root
\* and returns, for a key that is not stored, the gap at the end of a leaf
\* that is not the last one.
C20_Witness ==
    /\ Height3
    /\ \E k \in DOMAIN ref :
           AddressOf(nodes, root, k).addr.node = root
    /\ \E k \in Keys \ DOMAIN ref :
           /\ ~AddressOf(nodes, root, k).ok
           /\ AddressOf(nodes, root, k).addr.offset =
                  ItemCount(nodes[AddressOf(nodes, root, k).addr.node])
           /\ KeysAbove(k) # {}

\* C21: the keys 1..25 inserted in ascending order into an empty tree give
\* a tree of two levels, the root an internal node over leaves, in which
\* every node but the root is balanced and whose traversal yields 1..25.
C21_CascadeSplit ==
    (load = "ascending" /\ len = 25) =>
        /\ ~panicked
        /\ root # NoNode
        /\ ~IsLeaf(nodes[root])
        /\ LeafDepths(nodes, root) = {1}
        /\ \A id \in Reachable(nodes, root) \ {root} :
               Balance(nodes[id]).tag = "Balanced"
        /\ Elements(nodes, root) =
               [i \in 1..25 |-> [key |-> i, value |-> 1]]

\* The insert of 25 has returned, after the four splits of a leaf under the
\* root that the inserts of 14, 19 and 24 and, first, the split of the root
\* leaf at 9 have made.
C21_Witness ==
    /\ load = "ascending"
    /\ len = 25
    /\ last.op = "insert"
    /\ last.key = 25
    /\ ItemCount(nodes[root]) = 4
    /\ ChildCount(nodes[root]) = 5

\* C22: for every reachable tree and every key that no stored element has,
\* address_of finds nothing and get returns None, and a remove of such a
\* key returns None without a panic and leaves the root, len, the allocated
\* nodes and the contents of every node as they were.
C22_NotFoundIsAValue ==
    /\ [](\A k \in Keys \ DOMAIN ref :
              /\ ~AddressOf(nodes, root, k).panic
              /\ ~AddressOf(nodes, root, k).ok
              /\ Get(nodes, root, k) = NoItem)
    /\ [][(last'.op = "remove" /\ last'.key \notin DOMAIN ref) =>
              /\ last'.ret = NoItem
              /\ ~panicked'
              /\ root' = root
              /\ len' = len
              /\ DOMAIN nodes' = DOMAIN nodes
              /\ nodes' = nodes]_vars

\* A remove of a key that lies between two stored keys of a tree of three
\* levels has returned None.
C22_Witness ==
    /\ last.op = "remove"
    /\ last.key \notin DOMAIN ref
    /\ last.ret = NoItem
    /\ last.ref_ret = NoItem
    /\ Height3
    /\ \E j \in DOMAIN ref : j < last.key
    /\ \E j \in DOMAIN ref : j > last.key

\* The operation removes the only element of the tree, so that rebalance
\* finds the root an empty leaf.
RemovesLastElement ==
    /\ last'.op \in {"remove", "remove_at"}
    /\ len = 1
    /\ len' = 0

\* C23 as the specification states it: when rebalance reaches a root that
\* is an empty leaf, the leaf stays allocated and stays the root.
C23_Original ==
    [][RemovesLastElement =>
           /\ root' = root
           /\ root' \in DOMAIN nodes'
           /\ IsLeaf(nodes'[root'])
           /\ ItemCount(nodes'[root']) = 0]_vars

\* C23: when rebalance reaches a root that is an empty leaf, the last
\* element having just been removed, it releases the leaf and returns no
\* root: the tree is empty, the root handle is absent and the leaf is no
\* longer allocated.
C23_EmptyRootLeafReleased ==
    [][RemovesLastElement =>
           /\ root # NoNode
           /\ IsLeaf(nodes[root])
           /\ "root_release" \in last'.events
           /\ root' = NoNode
           /\ DOMAIN nodes' = DOMAIN nodes \ {root}
           /\ last'.addr = NoAddr
           /\ ~panicked']_vars

\* The removal of the only element of a tree has released the root leaf.
C23_Witness ==
    /\ last.op = "remove"
    /\ last.ret # NoItem
    /\ "root_release" \in last.events
    /\ len = 0
    /\ root = NoNode
    /\ DOMAIN nodes = {}

\* --------------------------------------------------- claims on the turns

\* The loop of rebalance is about to take a turn on a node that underflows
\* and has a parent.
UnderflowsUnderParent ==
    /\ turn.phase = "running"
    /\ turn.loop[1].balance.tag = "Underflow"
    /\ nodes[turn.loop[1].id].parent # NoNode

\* The child of the node p at the index i exists and holds at least M/2
\* items, so that it can give one away.
SiblingGives(p, i) ==
    /\ i >= 0
    /\ i < ChildCount(nodes[p])
    /\ ItemCount(nodes[ChildId(nodes[p], i)]) >= M \div 2

\* The turn taken on the child id of p, which sits at the index k: the
\* rotations are tried in their order, a rotation ends the loop and a merge
\* hands the parent to the next turn.
RotationsBeforeMerge(id, p, k) ==
    /\ turn'.step \in {"rotate_left", "rotate_right", "merge"}
    /\ turn'.step = "rotate_left" <=> SiblingGives(p, k + 1)
    /\ turn'.step = "rotate_right" <=>
           ~SiblingGives(p, k + 1) /\ SiblingGives(p, k - 1)
    /\ turn'.step = "merge" <=>
           ~SiblingGives(p, k + 1) /\ ~SiblingGives(p, k - 1)
    /\ turn'.step \in {"rotate_left", "rotate_right"} =>
           /\ Balance(nodes'[id]).tag = "Balanced"
           /\ ItemCount(nodes'[id]) = ItemCount(nodes[id]) + 1
           /\ ItemCount(nodes'[p]) = ItemCount(nodes[p])
           /\ turn'.loop[1].done
           /\ turn'.phase = "returned"
    /\ turn'.step = "merge" =>
           /\ ~turn'.loop[1].done
           /\ turn'.phase = "running"
           /\ turn'.loop[1].id = p
           /\ turn'.loop[1].balance = Balance(nodes'[p])
    /\ ~panicked'

\* C24: when a node that has a parent underflows, rebalance rotates left
\* when the right sibling can give an item, else rotates right when the
\* left sibling can, else merges; a rotation leaves the node balanced and
\* the item count of the parent as it was and ends the rebalancing, and
\* after a merge the rebalancing goes on with the parent.
C24_RotationsBeforeMerge ==
    [][(UnderflowsUnderParent /\ turn' # turn) =>
           RotationsBeforeMerge(
               turn.loop[1].id, nodes[turn.loop[1].id].parent,
               ChildIndex(nodes[nodes[turn.loop[1].id].parent],
                          turn.loop[1].id))]_vars

\* A right rotation has ended a rebalancing on a node whose right sibling
\* exists and holds too few items to give one: the left rotation was tried
\* and refused before it.
C24_Witness ==
    /\ turn.phase = "returned"
    /\ turn.step = "rotate_right"
    /\ nodes[turn.loop[1].id].parent # NoNode
    /\ \E i \in 1..(ChildCount(nodes[nodes[turn.loop[1].id].parent]) - 1) :
           /\ ChildId(nodes[nodes[turn.loop[1].id].parent], i - 1) =
                  turn.loop[1].id
           /\ ItemCount(nodes[ChildId(nodes[nodes[turn.loop[1].id].parent],
                                      i)]) < M \div 2

\* The sequence without its last element.
Front(q) == SubSeq(q, 1, Len(q) - 1)

\* pop_left on the node n refuses when n holds fewer than M/2 items, and
\* else takes the first item, with the first child of an internal node,
\* and leaves a node that does not underflow.
PopLeftIsRight(n) ==
    IF ItemCount(n) < M \div 2 THEN WouldUnderflow(n)
    ELSE /\ ~WouldUnderflow(n)
         /\ PopLeft(n).item = NodeItems(n)[1]
         /\ NodeItems(PopLeft(n).node) = Tail(NodeItems(n))
         /\ PopLeft(n).child =
                (IF IsLeaf(n) THEN NoNode ELSE Children(n)[1])
         /\ ~IsLeaf(n) => Children(PopLeft(n).node) = Tail(Children(n))
         /\ PopLeft(n).node.parent = n.parent
         /\ ~IsUnderflowing(PopLeft(n).node)

\* pop_right, with the last item and the last child.
PopRightIsRight(n) ==
    IF ItemCount(n) < M \div 2 THEN WouldUnderflow(n)
    ELSE /\ ~WouldUnderflow(n)
         /\ PopRight(n).item = NodeItems(n)[ItemCount(n)]
         /\ NodeItems(PopRight(n).node) = Front(NodeItems(n))
         /\ PopRight(n).child =
                (IF IsLeaf(n) THEN NoNode
                 ELSE Children(n)[ChildCount(n)])
         /\ ~IsLeaf(n) => Children(PopRight(n).node) = Front(Children(n))
         /\ PopRight(n).node.parent = n.parent
         /\ ~IsUnderflowing(PopRight(n).node)

\* The turn on the child id of p at the index k leaves alone a sibling that
\* has refused, unless the merge that follows two refusals takes it, and
\* leaves the sibling that has given an item without that item and not
\* underflowing.
DonorsAfterTurn(id, p, k) ==
    /\ (turn'.step = "rotate_right" /\ k + 1 < ChildCount(nodes[p])) =>
           nodes'[ChildId(nodes[p], k + 1)] = nodes[ChildId(nodes[p], k + 1)]
    /\ turn'.step = "rotate_left" =>
           /\ nodes'[ChildId(nodes[p], k + 1)] =
                  PopLeft(nodes[ChildId(nodes[p], k + 1)]).node
           /\ ~IsUnderflowing(nodes'[ChildId(nodes[p], k + 1)])
    /\ turn'.step = "rotate_right" =>
           /\ nodes'[ChildId(nodes[p], k - 1)] =
                  PopRight(nodes[ChildId(nodes[p], k - 1)]).node
           /\ ~IsUnderflowing(nodes'[ChildId(nodes[p], k - 1)])

\* C25: on every node of every state the rebalancing goes through,
\* pop_left and pop_right refuse with WouldUnderflow exactly when the node
\* holds fewer than M/2 items, and else remove and return the first or the
\* last item, with the child next to it for an internal node; a sibling
\* that refuses stays as it is and a sibling that gives an item does not
\* underflow after the rotation.
C25_PopRefusesUnderHalf ==
    /\ [](\A id \in DOMAIN nodes :
              PopLeftIsRight(nodes[id]) /\ PopRightIsRight(nodes[id]))
    /\ [][(UnderflowsUnderParent /\ turn' # turn) =>
              DonorsAfterTurn(
                  turn.loop[1].id, nodes[turn.loop[1].id].parent,
                  ChildIndex(nodes[nodes[turn.loop[1].id].parent],
                             turn.loop[1].id))]_vars

\* A left rotation between internal nodes has left the right sibling, which
\* held M/2 items, with one item less, after a merge of two leaves.
C25_Witness ==
    /\ turn.step = "rotate_left"
    /\ "merge" \in turn.loop[1].events
    /\ ~IsLeaf(nodes[turn.loop[1].id])
    /\ \E i \in 1..(ChildCount(nodes[nodes[turn.loop[1].id].parent]) - 1) :
           /\ ChildId(nodes[nodes[turn.loop[1].id].parent], i - 1) =
                  turn.loop[1].id
           /\ ItemCount(nodes[ChildId(nodes[nodes[turn.loop[1].id].parent],
                                      i)]) = M \div 2 - 1

\* The loop of rebalance is about to take a turn on a node that overflows.
Overflows ==
    /\ turn.phase = "running"
    /\ turn.loop[1].balance.tag = "Overflow"

\* The result s of split on the node n of len items, with m = (len - 1) / 2:
\* the node keeps the first m items, the median is the item at m, the right
\* node takes the items after it in order, and the children go with their
\* items, the child of the median first in the right node.
SplitIsRight(n, s, m) ==
    /\ s.len = m
    /\ NodeItems(s.left) = SubSeq(NodeItems(n), 1, m)
    /\ s.median = NodeItems(n)[m + 1]
    /\ NodeItems(s.right) = SubSeq(NodeItems(n), m + 2, ItemCount(n))
    /\ NodeItems(s.left) \o <<s.median>> \o NodeItems(s.right) =
           NodeItems(n)
    /\ IsLeaf(s.left) = IsLeaf(n)
    /\ IsLeaf(s.right) = IsLeaf(n)
    /\ ~IsLeaf(n) =>
           /\ s.right.first_child = n.other_children[m + 1].child
           /\ Children(s.left) \o Children(s.right) = Children(n)
           /\ ChildCount(s.left) = m + 1
    /\ ~IsUnderflowing(s.left)
    /\ ~IsUnderflowing(s.right)
    /\ ~IsOverflowing(s.left)
    /\ ~IsOverflowing(s.right)

\* The turn has split the node id into s: id holds the left half, a node
\* that was not allocated holds the right half, and the median is the item
\* of the parent between them.
SplitActed(id, s) ==
    /\ NodeItems(nodes'[id]) = NodeItems(s.left)
    /\ Children(nodes'[id]) = Children(s.left)
    /\ nodes'[id].parent \in DOMAIN nodes'
    /\ \E right_id \in DOMAIN nodes' \ DOMAIN nodes :
           /\ NodeItems(nodes'[right_id]) = NodeItems(s.right)
           /\ Children(nodes'[right_id]) = Children(s.right)
           /\ \E i \in 0..(ItemCount(nodes'[nodes'[id].parent]) - 1) :
                  /\ ChildId(nodes'[nodes'[id].parent], i) = id
                  /\ Item(nodes'[nodes'[id].parent], i) = s.median
                  /\ ChildId(nodes'[nodes'[id].parent], i + 1) = right_id
    /\ ~panicked'

\* C26: the split of an overflowing node of len items keeps the items
\* before m = (len - 1) / 2 in the node, returns the item at m as the median
\* and m as the count that remains, and moves the items after m in order
\* to the new right node, whose first child is the child of the median
\* branch when the node is internal; no side underflows and no item and no
\* child is lost or duplicated.
C26_SplitHalves ==
    [][(Overflows /\ turn' # turn) =>
           /\ SplitIsRight(nodes[turn.loop[1].id],
                           NodeSplit(nodes[turn.loop[1].id]),
                           (ItemCount(nodes[turn.loop[1].id]) - 1) \div 2)
           /\ SplitActed(turn.loop[1].id,
                         NodeSplit(nodes[turn.loop[1].id]))]_vars

\* The split of a leaf has overflowed the root, an internal node, which
\* was split in its turn and keeps 3 of its 8 items.
C26_Witness ==
    /\ turn.step = "root_split"
    /\ "split" \in turn.loop[1].events
    /\ ~IsLeaf(nodes[turn.loop[1].id])
    /\ ItemCount(nodes[turn.loop[1].id]) = (M - 1) \div 2
    /\ nodes[turn.loop[1].id].parent = root

\* The sequence q with x inserted before its element of index i, from 0.
InsertedBefore(q, i, x) ==
    SubSeq(q, 1, i) \o <<x>> \o SubSeq(q, i + 1, Len(q))

\* The turn splits the root id into s: a new root holds the median alone
\* over id and the right node, which have it as their parent, and every
\* leaf is one level deeper.
SplitOfRoot(id, s) ==
    /\ turn'.step = "root_split"
    /\ turn'.loop[1].done
    /\ root' \notin DOMAIN nodes
    /\ root' \in DOMAIN nodes'
    /\ root' = turn'.loop[1].root
    /\ ~IsLeaf(nodes'[root'])
    /\ nodes'[root'].parent = NoNode
    /\ NodeItems(nodes'[root']) = <<s.median>>
    /\ ChildCount(nodes'[root']) = 2
    /\ ChildId(nodes'[root'], 0) = id
    /\ ChildId(nodes'[root'], 1) \notin DOMAIN nodes
    /\ NodeItems(nodes'[ChildId(nodes'[root'], 1)]) = NodeItems(s.right)
    /\ nodes'[id].parent = root'
    /\ nodes'[ChildId(nodes'[root'], 1)].parent = root'
    /\ Cardinality(LeafDepths(nodes, id)) = 1
    /\ LeafDepths(nodes', root') = {d + 1 : d \in LeafDepths(nodes, id)}

\* The turn splits the child id of p, at the index k, into s: p takes the
\* median at the offset k and the right node as the child after it, and the
\* leaves are as deep as they were.
SplitUnderItsParent(id, p, k, s) ==
    /\ turn'.step = "split"
    /\ ~turn'.loop[1].done
    /\ turn'.loop[1].id = p
    /\ turn'.loop[1].root = turn.loop[1].root
    /\ root' = root
    /\ NodeItems(nodes'[p]) = InsertedBefore(NodeItems(nodes[p]), k, s.median)
    /\ ChildId(nodes'[p], k) = id
    /\ ChildId(nodes'[p], k + 1) \notin DOMAIN nodes
    /\ Children(nodes'[p]) =
           InsertedBefore(Children(nodes[p]), k + 1,
                          ChildId(nodes'[p], k + 1))
    /\ NodeItems(nodes'[ChildId(nodes'[p], k + 1)]) = NodeItems(s.right)
    /\ nodes'[ChildId(nodes'[p], k + 1)].parent = p
    /\ nodes'[id].parent = p
    /\ LeafDepths(nodes', root) = LeafDepths(nodes, root)

\* C27: the split of an overflowing root makes a new internal root of one
\* item, the median, over the old root on the left and the new right node
\* on the right, both with the new root as their parent, and the tree is
\* one level higher; the split of a node that has a parent inserts the
\* median and the right node into the parent as the branch at the child
\* index of the node, and the height stays as it was.
C27_SplitGrowsAtRoot ==
    [][(Overflows /\ turn' # turn) =>
           /\ ~panicked'
           /\ IF nodes[turn.loop[1].id].parent = NoNode
              THEN SplitOfRoot(turn.loop[1].id,
                               NodeSplit(nodes[turn.loop[1].id]))
              ELSE SplitUnderItsParent(
                       turn.loop[1].id, nodes[turn.loop[1].id].parent,
                       ChildIndex(nodes[nodes[turn.loop[1].id].parent],
                                  turn.loop[1].id),
                       NodeSplit(nodes[turn.loop[1].id]))]_vars

\* An insert has split a leaf under its parent and then the root, and has
\* returned a tree of three levels with a root of one item.
C27_Witness ==
    /\ turn.phase = "returned"
    /\ turn.op = "insert"
    /\ turn.loop[1].events = {"split", "root_split"}
    /\ Height3
    /\ ItemCount(nodes[root]) = 1
    /\ ChildCount(nodes[root]) = 2
    /\ len = Len(Elements(nodes, root))

\* The loop of rebalance is about to take a turn on an internal root that
\* has no item left.
EmptyInternalRoot ==
    /\ turn.phase = "running"
    /\ turn.loop[1].balance.tag = "Underflow"
    /\ turn.loop[1].balance.is_empty
    /\ nodes[turn.loop[1].id].parent = NoNode
    /\ ~IsLeaf(nodes[turn.loop[1].id])

\* The turn on the empty internal root id, whose only child is child: the
\* child becomes the root and has no parent, id is released, nothing else
\* changes and every leaf is one level less deep.
RootCollapsed(id, child) ==
    /\ turn'.step = "root_collapse"
    /\ turn'.loop[1].done
    /\ ItemCount(nodes[id]) = 0
    /\ Children(nodes[id]) = <<child>>
    /\ turn.loop[1].root = id
    /\ turn'.loop[1].root = child
    /\ root' = child
    /\ DOMAIN nodes' = DOMAIN nodes \ {id}
    /\ nodes'[child] = SetParent(nodes[child], NoNode)
    /\ nodes[child].parent = id
    /\ \A x \in DOMAIN nodes' : x # child => nodes'[x] = nodes[x]
    /\ Cardinality(LeafDepths(nodes', child)) = 1
    /\ LeafDepths(nodes, id) = {d + 1 : d \in LeafDepths(nodes', child)}
    /\ ~panicked'

\* The tracked address after the turn: one in the released root is moved
\* to the new root at the offset of its item count, any other is kept.  The
\* turn is also taken from every address of the released root in the place
\* of the tracked one.
RootCollapseRebases(id, child) ==
    /\ turn'.loop[1].addr =
           (IF turn.loop[1].addr.node = id
            THEN Address(child, ItemCount(nodes[child]))
            ELSE turn.loop[1].addr)
    /\ \A o \in {Before} \cup 0..M :
           RebalanceTurn([Loop EXCEPT !.addr = Address(id, o)]).addr =
               Address(child, ItemCount(nodes[child]))

\* C28: when merges leave an internal root without an item, its only child
\* becomes the root and has its parent cleared, the old root is released
\* and the tree is one level lower; a tracked address in the released root
\* becomes the address of the new root at the offset of its item count.
C28_RootCollapse ==
    [][(EmptyInternalRoot /\ turn' # turn) =>
           /\ RootCollapsed(turn.loop[1].id,
                            ChildId(nodes[turn.loop[1].id], 0))
           /\ RootCollapseRebases(turn.loop[1].id,
                                  ChildId(nodes[turn.loop[1].id], 0))]_vars

\* A removal has merged two leaves, then the two internal nodes under the
\* root, and has returned a tree whose root is the merged internal node,
\* of 2 * UNDERFLOW items.
C28_Witness ==
    /\ turn.phase = "returned"
    /\ turn.op = "remove"
    /\ turn.step = "root_collapse"
    /\ turn.loop[1].events = {"merge", "root_collapse"}
    /\ root \in DOMAIN nodes
    /\ ~IsLeaf(nodes[root])
    /\ nodes[root].parent = NoNode
    /\ ItemCount(nodes[root]) = 2 * UNDERFLOW

\* The sequence q without its element of index i, from 0.
Without(q, i) == SubSeq(q, 1, i) \o SubSeq(q, i + 2, Len(q))

\* The merge turn on the parent p joins its children left and right, which
\* sit at the indexes i and i + 1: left holds its items, the item of p at i
\* and the items of right, and the children of both; right is released and
\* its children have left as their parent; p has lost the item and right.
MergeJoins(p, i, left, right) ==
    /\ DOMAIN nodes' = DOMAIN nodes \ {right}
    /\ left \in DOMAIN nodes'
    /\ NodeItems(nodes'[left]) =
           NodeItems(nodes[left]) \o <<Item(nodes[p], i)>> \o
           NodeItems(nodes[right])
    /\ Children(nodes'[left]) =
           Children(nodes[left]) \o Children(nodes[right])
    /\ nodes'[left].parent = p
    /\ \A j \in 1..ChildCount(nodes[right]) :
           nodes'[Children(nodes[right])[j]].parent = left
    /\ \A j \in 1..ChildCount(nodes[left]) :
           nodes'[Children(nodes[left])[j]].parent = left
    /\ NodeItems(nodes'[p]) = Without(NodeItems(nodes[p]), i)
    /\ Children(nodes'[p]) = Without(Children(nodes[p]), i + 1)
    /\ ItemCount(nodes'[p]) = ItemCount(nodes[p]) - 1
    /\ ChildCount(nodes'[p]) = ChildCount(nodes[p]) - 1
    /\ ~IsOverflowing(nodes'[left])
    /\ ~IsUnderflowing(nodes'[left])
    /\ ~panicked'

\* The merge turn on the child of p at the index k: it is joined with its
\* left sibling, or with its right sibling when it is the first child.
MergeOfChild(p, k) ==
    IF k > 0
    THEN MergeJoins(p, k - 1, ChildId(nodes[p], k - 1), ChildId(nodes[p], k))
    ELSE MergeJoins(p, 0, ChildId(nodes[p], 0), ChildId(nodes[p], 1))

\* C29: a merge keeps the left node of the pair and releases the right
\* one; the left node holds its items, then the separator taken out of the
\* parent, then the items of the right node; the children that come from
\* the right node have the left node as their parent; the parent loses one
\* item and one child; the merged node does not overflow.
C29_MergeKeepsLeft ==
    [][(UnderflowsUnderParent /\ turn' # turn /\ turn'.step = "merge") =>
           MergeOfChild(
               nodes[turn.loop[1].id].parent,
               ChildIndex(nodes[nodes[turn.loop[1].id].parent],
                          turn.loop[1].id))]_vars

\* Two internal nodes have been merged after two leaves under one of them:
\* the rebalancing goes on with the root, whose first child holds
\* 2 * UNDERFLOW items and is the parent of all its children.
C29_Witness ==
    /\ turn.phase = "running"
    /\ turn.step = "merge"
    /\ turn.loop[1].id = root
    /\ ~IsLeaf(nodes[nodes[root].first_child])
    /\ ItemCount(nodes[nodes[root].first_child]) = 2 * UNDERFLOW
    /\ \A j \in 1..ChildCount(nodes[nodes[root].first_child]) :
           nodes[Children(nodes[nodes[root].first_child])[j]].parent =
               nodes[root].first_child

\* A left rotation on the child id of p at the index k, with the right
\* sibling as donor: the separator of p at k goes to the end of id, the
\* first item of the donor takes its place, and the first child of an
\* internal donor becomes the last child of id.
RotatedLeft(id, p, k, donor) ==
    /\ NodeItems(nodes'[id]) = Append(NodeItems(nodes[id]), Item(nodes[p], k))
    /\ NodeItems(nodes'[p]) =
           [NodeItems(nodes[p]) EXCEPT ![k + 1] = NodeItems(nodes[donor])[1]]
    /\ NodeItems(nodes'[donor]) = Tail(NodeItems(nodes[donor]))
    /\ Children(nodes'[p]) = Children(nodes[p])
    /\ IsLeaf(nodes[id]) = IsLeaf(nodes[donor])
    /\ ~IsLeaf(nodes[id]) =>
           /\ Children(nodes'[id]) =
                  Append(Children(nodes[id]), Children(nodes[donor])[1])
           /\ Children(nodes'[donor]) = Tail(Children(nodes[donor]))
           /\ nodes[Children(nodes[donor])[1]].parent = donor
           /\ nodes'[Children(nodes[donor])[1]].parent = id

\* A right rotation, with the left sibling as donor: the separator of p at
\* k - 1 goes to the front of id, the last item of the donor takes its
\* place, and the last child of an internal donor becomes the first child
\* of id.
RotatedRight(id, p, k, donor) ==
    /\ NodeItems(nodes'[id]) = <<Item(nodes[p], k - 1)>> \o NodeItems(nodes[id])
    /\ NodeItems(nodes'[p]) =
           [NodeItems(nodes[p]) EXCEPT
               ![k] = NodeItems(nodes[donor])[ItemCount(nodes[donor])]]
    /\ NodeItems(nodes'[donor]) = Front(NodeItems(nodes[donor]))
    /\ Children(nodes'[p]) = Children(nodes[p])
    /\ IsLeaf(nodes[id]) = IsLeaf(nodes[donor])
    /\ ~IsLeaf(nodes[id]) =>
           /\ Children(nodes'[id]) =
                  <<Children(nodes[donor])[ChildCount(nodes[donor])]>> \o
                  Children(nodes[id])
           /\ Children(nodes'[donor]) = Front(Children(nodes[donor]))
           /\ nodes[Children(nodes[donor])[ChildCount(nodes[donor])]].parent
                  = donor
           /\ nodes'[Children(nodes[donor])[ChildCount(nodes[donor])]].parent
                  = id

\* What a rotation on the child id of p with the donor leaves alone: the
\* allocated nodes, the item count of the parent, every node but the
\* three and the child that moves, and the sequence of the elements of the
\* tree.
RotationFrame(id, p, donor) ==
    /\ DOMAIN nodes' = DOMAIN nodes
    /\ ItemCount(nodes'[p]) = ItemCount(nodes[p])
    /\ ItemCount(nodes'[donor]) = ItemCount(nodes[donor]) - 1
    /\ ItemCount(nodes'[id]) = ItemCount(nodes[id]) + 1
    /\ \A x \in DOMAIN nodes :
           x \notin {id, p, donor} =>
               /\ NodeItems(nodes'[x]) = NodeItems(nodes[x])
               /\ Children(nodes'[x]) = Children(nodes[x])
    /\ root' = root
    /\ Elements(nodes', root') = Elements(nodes, root)
    /\ ~panicked'

\* C30: a rotation moves one item of the donor sibling to the separator of
\* the parent and the old separator into the deficient node, with the child
\* of the donor next to the item, which takes the deficient node as its
\* parent, when the nodes are internal; the item count of the parent, the
\* sequence of the elements of the tree in order and their number stay as
\* they were.
C30_RotationFrame ==
    [][(UnderflowsUnderParent /\ turn' # turn) =>
           /\ turn'.step = "rotate_left" =>
                  /\ RotatedLeft(
                         turn.loop[1].id, nodes[turn.loop[1].id].parent,
                         ChildIndex(nodes[nodes[turn.loop[1].id].parent],
                                    turn.loop[1].id),
                         ChildId(nodes[nodes[turn.loop[1].id].parent],
                                 ChildIndex(
                                     nodes[nodes[turn.loop[1].id].parent],
                                     turn.loop[1].id) + 1))
                  /\ RotationFrame(
                         turn.loop[1].id, nodes[turn.loop[1].id].parent,
                         ChildId(nodes[nodes[turn.loop[1].id].parent],
                                 ChildIndex(
                                     nodes[nodes[turn.loop[1].id].parent],
                                     turn.loop[1].id) + 1))
           /\ turn'.step = "rotate_right" =>
                  /\ RotatedRight(
                         turn.loop[1].id, nodes[turn.loop[1].id].parent,
                         ChildIndex(nodes[nodes[turn.loop[1].id].parent],
                                    turn.loop[1].id),
                         ChildId(nodes[nodes[turn.loop[1].id].parent],
                                 ChildIndex(
                                     nodes[nodes[turn.loop[1].id].parent],
                                     turn.loop[1].id) - 1))
                  /\ RotationFrame(
                         turn.loop[1].id, nodes[turn.loop[1].id].parent,
                         ChildId(nodes[nodes[turn.loop[1].id].parent],
                                 ChildIndex(
                                     nodes[nodes[turn.loop[1].id].parent],
                                     turn.loop[1].id) - 1))]_vars

\* A right rotation between internal nodes, after a merge of two leaves, has
\* given the deficient node a first child that names it as its parent.
C30_Witness ==
    /\ turn.phase = "returned"
    /\ turn.step = "rotate_right"
    /\ turn.loop[1].events = {"merge", "rotate_right"}
    /\ ~IsLeaf(nodes[turn.loop[1].id])
    /\ ItemCount(nodes[turn.loop[1].id]) = UNDERFLOW
    /\ nodes[nodes[turn.loop[1].id].first_child].parent = turn.loop[1].id
    /\ len = Len(Elements(nodes, root))

\* ------------------------------------------- claims on remove_at and walks

\* The key a removal takes out of the reference map.
RemovedKey == CHOOSE k \in DOMAIN ref : k \notin DOMAIN ref'

\* The addresses of the internal nodes that hold the key k.
InternalAddressesOf(k) ==
    {a \in OccupiedAddresses :
         ~IsLeaf(nodes[a.node]) /\ GetAt(nodes, a).key = k}

\* The element that comes before the key k in the traversal of the tree.
ElementBefore(k) ==
    LET es == Elements(nodes, root)
        i == CHOOSE j \in 1..Len(es) : es[j].key = k
    IN  IF i > 1 THEN es[i - 1] ELSE NoItem

\* The leaves whose last item is x and which lie under the child on the
\* left of the address a.
GivingLeaves(a, x) ==
    {id \in Subtree(nodes, ChildId(nodes[a.node], a.offset)) :
         /\ IsLeaf(nodes[id])
         /\ ItemCount(nodes[id]) > 0
         /\ nodes[id].items[ItemCount(nodes[id])] = x}

\* remove_at has taken the item at the address a of an internal node out:
\* the leaf has lost its last item x, x stands at a, nothing else has
\* changed, the call returns the item that stood at a, and rebalance has
\* been entered on the leaf.
SwappedFromLeaf(a, leaf, x) ==
    /\ nodes'[leaf].items = Front(nodes[leaf].items)
    /\ nodes'[leaf].parent = nodes[leaf].parent
    /\ NodeItems(nodes'[a.node]) =
           [NodeItems(nodes[a.node]) EXCEPT ![a.offset + 1] = x]
    /\ Children(nodes'[a.node]) = Children(nodes[a.node])
    /\ nodes'[a.node].parent = nodes[a.node].parent
    /\ DOMAIN nodes' = DOMAIN nodes
    /\ \A id \in DOMAIN nodes \ {leaf, a.node} : nodes'[id] = nodes[id]
    /\ turn'.item = Item(nodes[a.node], a.offset)
    /\ turn'.item = [key |-> GetAt(nodes, a).key,
                     value |-> ref[GetAt(nodes, a).key]]
    /\ turn'.loop[1].id = leaf
    /\ turn'.loop[1].root = root
    /\ turn'.loop[1].balance = Balance(nodes'[leaf])
    /\ ~panicked'

\* C31: remove_at on an occupied address of an internal node takes the last
\* item of the rightmost leaf under the child on the left of the address
\* out of that leaf and puts it at the address, returns the element that
\* stood there, and starts rebalance at the leaf that gave the item.
C31_RemoveAtInternal ==
    [][(/\ turn = NoTurn
        /\ turn'.op = "remove"
        /\ turn'.step = "enter"
        /\ InternalAddressesOf(RemovedKey) # {}) =>
           /\ Cardinality(InternalAddressesOf(RemovedKey)) = 1
           /\ ElementBefore(RemovedKey) # NoItem
           /\ \A a \in InternalAddressesOf(RemovedKey) :
                  /\ Cardinality(
                         GivingLeaves(a, ElementBefore(RemovedKey))) = 1
                  /\ \A leaf \in GivingLeaves(
                                     a, ElementBefore(RemovedKey)) :
                         SwappedFromLeaf(a, leaf,
                                         ElementBefore(RemovedKey))]_vars

\* remove_at has taken an item of the root of a tree of three levels out:
\* the last item of a leaf two levels under the root stands in its place,
\* over that leaf and before the key that is gone.
C31_Witness ==
    /\ turn.phase = "running"
    /\ turn.op = "remove"
    /\ turn.step = "enter"
    /\ turn.item # NoItem
    /\ turn.item.key \notin DOMAIN ref
    /\ root # NoNode
    /\ IsLeaf(nodes[turn.loop[1].id])
    /\ nodes[turn.loop[1].id].parent \notin {NoNode, root}
    /\ nodes[nodes[turn.loop[1].id].parent].parent = root
    /\ \E o \in 0..(M - 1) :
           /\ o < ItemCount(nodes[root])
           /\ Item(nodes[root], o).key < turn.item.key
           /\ turn.loop[1].id \in
                  Subtree(nodes, ChildId(nodes[root], o))
           /\ \A x \in KeysUnder(nodes, ChildId(nodes[root], o)) :
                  x < Item(nodes[root], o).key
           /\ \A x \in KeysUnder(nodes, ChildId(nodes[root], o + 1)) :
                  x > turn.item.key

\* The occupied addresses of the nodes of the tree.
ItemAddresses ==
    {a \in OccupiedAddresses : a.node \in Reachable(nodes, root)}

\* The address b is an address the walks return, and not a failed unwrap.
IsSome(b) == b # NoAddr /\ b.node # NoNode

\* C32: for every occupied address a of the tree, an address b that
\* previous_item_address(a) returns differs from a and
\* next_item_address(b) is a, and an address c that next_item_address(a)
\* returns differs from a and previous_item_address(c) is a.
C32_ItemWalksInverse ==
    root # NoNode =>
        \A a \in ItemAddresses :
            /\ PreviousItemAddress(nodes, a) # NoAddr =>
                   /\ IsSome(PreviousItemAddress(nodes, a))
                   /\ PreviousItemAddress(nodes, a) # a
                   /\ NextItemAddress(nodes, PreviousItemAddress(nodes, a))
                          = a
            /\ NextItemAddress(nodes, a) # NoAddr =>
                   /\ IsSome(NextItemAddress(nodes, a))
                   /\ NextItemAddress(nodes, a) # a
                   /\ PreviousItemAddress(nodes, NextItemAddress(nodes, a))
                          = a

\* In a tree of three levels the first item of the root has the last item
\* of a leaf before it and the first item of a leaf after it, and the walks
\* lead from each of the two back to it.
C32_Witness ==
    /\ root # NoNode
    /\ ~panicked
    /\ LeafDepths(nodes, root) = {2}
    /\ IsLeaf(nodes[PreviousItemAddress(nodes, Address(root, 0)).node])
    /\ IsLeaf(nodes[NextItemAddress(nodes, Address(root, 0)).node])
    /\ NextItemAddress(nodes, Address(root, 0)).offset = 0
    /\ NextItemAddress(nodes, PreviousItemAddress(nodes, Address(root, 0)))
           = Address(root, 0)
    /\ PreviousItemAddress(nodes, NextItemAddress(nodes, Address(root, 0)))
           = Address(root, 0)

\* The round trip of the claim C33 from the address a: next_back_address
\* returns another address from which previous_front_address leads back,
\* and an address previous_front_address returns is another address from
\* which next_back_address leads back.
FrontBackInverse(a) ==
    /\ IsSome(NextBackAddress(nodes, a))
    /\ NextBackAddress(nodes, a) # a
    /\ PreviousFrontAddress(nodes, NextBackAddress(nodes, a)) = a
    /\ PreviousFrontAddress(nodes, a) # NoAddr =>
           /\ IsSome(PreviousFrontAddress(nodes, a))
           /\ PreviousFrontAddress(nodes, a) # a
           /\ NextBackAddress(nodes, PreviousFrontAddress(nodes, a)) = a

\* C33: from every occupied address a of the tree, in a leaf or in an
\* internal node, next_back_address returns an address b that differs from
\* a with previous_front_address(b) = a, and an address c that
\* previous_front_address(a) returns differs from a and
\* next_back_address(c) = a.
C33_Original ==
    root # NoNode => \A a \in ItemAddresses : FrontBackInverse(a)

\* In a tree of three levels the walks from the first item of the root
\* reach leaves two levels under it, the first address of the one and the
\* last occupied address of the other, and the walks back stop in those
\* leaves, while the round trip holds from the first address of a leaf.
C33_Witness ==
    /\ root # NoNode
    /\ ~panicked
    /\ LeafDepths(nodes, root) = {2}
    /\ IsLeaf(nodes[NextBackAddress(nodes, Address(root, 0)).node])
    /\ NextBackAddress(nodes, Address(root, 0)).offset = 0
    /\ PreviousFrontAddress(nodes, NextBackAddress(nodes, Address(root, 0)))
           = Address(NextBackAddress(nodes, Address(root, 0)).node, Before)
    /\ IsLeaf(nodes[PreviousFrontAddress(nodes, Address(root, 0)).node])
    /\ PreviousFrontAddress(nodes, NextBackAddress(nodes, Address(root, 0)))
           # Address(root, 0)
    /\ NextBackAddress(nodes, PreviousFrontAddress(nodes, Address(root, 0)))
           # Address(root, 0)
    /\ \E a \in ItemAddresses :
           IsLeaf(nodes[a.node]) /\ a.offset = 0 /\ FrontBackInverse(a)

\* C34: remove_at on the address of a stored element, then insert_at of the
\* element remove_at returned at the new_addr it returned, gives a tree
\* that passes validate and holds the elements the tree held before the
\* removal, in the same order.
C34_RemoveThenInsertAt ==
    last.op = "insert_at" =>
        /\ ~panicked
        /\ Validate(nodes, root)
        /\ Elements(nodes, root) = last.before.tree
        /\ len = last.before.len
        /\ len = Len(Elements(nodes, root))

\* An item of the root of a tree of three levels has been taken out and
\* put back at new_addr, which insert_at has led down to a leaf.
C34_Witness ==
    /\ last.op = "insert_at"
    /\ ~panicked
    /\ root # NoNode
    /\ LeafDepths(nodes, root) = {2}
    /\ IsLeaf(nodes[last.addr.node])
    /\ GetAt(nodes, last.addr) = turn.item
    /\ \E o \in 0..(M - 1) :
           /\ o < ItemCount(nodes[root])
           /\ Item(nodes[root], o).key < turn.item.key
           /\ \A x \in KeysUnder(nodes, ChildId(nodes[root], o)) :
                  x < Item(nodes[root], o).key
           /\ \A x \in KeysUnder(nodes, ChildId(nodes[root], o + 1)) :
                  x >= turn.item.key

\* ---------------------------------------------------- claims on normalize

\* The nodes from id up to the root.
RECURSIVE PathUp(_)
PathUp(id) ==
    IF nodes[id].parent = NoNode THEN <<id>>
    ELSE <<id>> \o PathUp(nodes[id].parent)

\* The address a as the climb states it at the i-th node of the path p:
\* a itself, then the index of the node before in p among the children.
AddressOn(a, p, i) ==
    IF i = 1 THEN a
    ELSE Address(p[i], ChildIndex(nodes[p[i]], p[i - 1]))

\* The climb stops at the address b: its offset is less than the item
\* count of its node, or, when past is TRUE, does not exceed it.
ClimbStops(b, past) ==
    IF past THEN OffsetCmp(b.offset, ItemCount(nodes[b.node])) <= 0
    ELSE OffsetCmp(b.offset, ItemCount(nodes[b.node])) < 0

\* r is the first address of the climb from a at which the climb stops, or
\* None when it stops nowhere up to the root.
NormalizedTo(a, r, past) ==
    LET p == PathUp(a.node)
        stops == {i \in 1..Len(p) : ClimbStops(AddressOn(a, p, i), past)}
    IN  IF stops = {} THEN r = NoAddr
        ELSE r = AddressOn(a, p, CHOOSE i \in stops : \A j \in stops : i <= j)

\* C35 as it is stated: normalize returns the address when its offset does
\* not exceed the item count of its node, and else the first address of the
\* climb whose offset does not exceed the item count, or None.
C35_Original ==
    last.op = "normalize" => NormalizedTo(turn.loop[1], last.addr, TRUE)

\* C35: normalize returns the address when its offset is less than the item
\* count of its node; when the offset is the item count or more it climbs
\* to the parent, with the index of the node among the children as the
\* offset, until the offset is less than the item count, and returns None
\* exactly when the climb goes past the root.
C35_NormalizeClimbs ==
    last.op = "normalize" =>
        /\ NormalizedTo(turn.loop[1], last.addr, FALSE)
        /\ OffsetCmp(turn.loop[1].offset,
                     ItemCount(nodes[turn.loop[1].node])) < 0
               <=> last.addr = turn.loop[1]
        /\ last.addr # NoAddr =>
               /\ last.addr.node # NoNode
               /\ OffsetCmp(last.addr.offset,
                            ItemCount(nodes[last.addr.node])) < 0

\* normalize, called with the address one past the last item of the last
\* leaf under the first child of the root of a tree of three levels, has
\* climbed two levels and returned the address of the first item of the
\* root.
C35_Witness ==
    /\ last.op = "normalize"
    /\ root # NoNode
    /\ LeafDepths(nodes, root) = {2}
    /\ IsLeaf(nodes[turn.loop[1].node])
    /\ turn.loop[1].offset = ItemCount(nodes[turn.loop[1].node])
    /\ last.addr = Address(root, 0)

\* ---------------------------------------------------------- claims on clear

\* C36: clear leaves the root absent, len() 0 and is_empty() true, releases
\* every node that was allocated once, leaves none allocated and drops
\* every stored element once; the insert that follows builds a tree that
\* passes validate and is one leaf, the root, with the element inserted.
C36_ClearThenInsert ==
    [][/\ (turn.op # "clear" /\ turn'.op = "clear") =>
              /\ ~panicked'
              /\ root' = NoNode
              /\ len' = 0
              /\ {released'[i] : i \in 1..Len(released')} = DOMAIN nodes
              /\ Len(released') = Cardinality(DOMAIN nodes)
              /\ DOMAIN nodes' = {}
              /\ \A k \in Keys :
                     drops'[k] = IF k \in DOMAIN ref THEN 1 ELSE 0
       /\ (turn.op = "clear" /\ turn'.op = "insert") =>
              /\ ~panicked'
              /\ root' # NoNode
              /\ DOMAIN nodes' = {root'}
              /\ nodes'[root'] = Leaf(NoNode, <<turn'.item>>)
              /\ Validate(nodes', root')
              /\ len' = 1
              /\ drops' = drops
              /\ released' = released]_vars

\* A tree of more nodes than two levels hold, which stored every key, was
\* cleared and an element inserted into the empty tree.
C36_Witness ==
    /\ turn.op = "insert"
    /\ last.op = "insert"
    /\ Len(released) > M + 2
    /\ \A k \in Keys : drops[k] = 1
    /\ root # NoNode
    /\ IsLeaf(nodes[root])
    /\ len = 1

\* ------------------------------------------------ claims on the node heap

\* The handles the node n holds: its children and its parent.
HandlesOf(n) ==
    {Children(n)[i] : i \in 1..Len(Children(n))} \cup ({n.parent} \ {NoNode})

\* Every handle held by the root field or by an allocated node names an
\* allocated node, and the allocated nodes are the nodes reachable from
\* the root.
AllocatedIsReachable(ns, r) ==
    /\ r # NoNode => r \in DOMAIN ns
    /\ \A id \in DOMAIN ns : HandlesOf(ns[id]) \subseteq DOMAIN ns
    /\ DOMAIN ns = Reachable(ns, r)

\* The nodes a turn of rebalance allocates, or releases when the number is
\* negative, by the branch it takes.
AllocatedBy(step) ==
    IF step = "split" THEN 1
    ELSE IF step = "root_split" THEN 2
    ELSE IF step \in {"merge", "root_collapse", "root_release"}
    THEN 0 - 1
    ELSE 0

\* C37: when an operation has returned, the allocated nodes are the nodes
\* reachable from the root and no handle held by the root field, a child
\* list or a parent field names a released node; the same holds of the
\* root of the loop after every turn of rebalance.  A turn that merges,
\* collapses the root or releases an empty root leaf releases one node
\* that was allocated, a turn that splits allocates one node, or two at
\* the root, and releases none, and the other turns leave the allocated
\* nodes as they are.
C37_AllocatedIsReachable ==
    [][/\ (turn'.phase \in {"idle", "returned"} /\ ~panicked') =>
              AllocatedIsReachable(nodes', root')
       /\ (turn.phase = "running" /\ turn' # turn /\ ~panicked') =>
              /\ Cardinality(DOMAIN nodes') =
                     Cardinality(DOMAIN nodes) + AllocatedBy(turn'.step)
              /\ \/ DOMAIN nodes' \subseteq DOMAIN nodes
                 \/ DOMAIN nodes \subseteq DOMAIN nodes'
              /\ AllocatedIsReachable(nodes', turn'.loop[1].root)]_vars

\* A removal from a tree of three levels has returned after two merges and
\* the collapse of the root: three nodes less are allocated than the
\* number of nodes a tree of three levels has at least.
C37_Witness ==
    /\ turn.phase = "returned"
    /\ turn.op = "remove"
    /\ ~panicked
    /\ turn.loop[1].events = {"merge", "root_collapse"}
    /\ root # NoNode
    /\ LeafDepths(nodes, root) = {1}
    /\ DOMAIN nodes = Reachable(nodes, root)
    /\ Cardinality(DOMAIN nodes) = ItemCount(nodes[root]) + 2

\* --------------------------------------------------- claims on capacity

\* The node holds no more items than its inline array has room for.
WithinCapacity(n) ==
    IF IsLeaf(n) THEN ItemCount(n) <= M + 1 ELSE ItemCount(n) <= M

\* C38: in every state of an insert or a remove, between the turns of
\* rebalance as well as on return, a leaf holds at most M + 1 items and an
\* internal node at most M; no call has panicked, so no push or insert has
\* found its array full; and the trees the operations search, those at
\* rest, have no reachable node without an item, so that address_of
\* searches no empty node whatever the key.
C38_Capacity ==
    /\ ~panicked
    /\ \A id \in DOMAIN nodes : WithinCapacity(nodes[id])
    /\ turn.phase \in {"idle", "returned"} =>
           /\ \A id \in Reachable(nodes, root) : ItemCount(nodes[id]) > 0
           /\ \A k \in Keys : ~AddressOf(nodes, root, k).panic

\* Between two turns of rebalance in an insert: a leaf has split and its
\* parent, the root, has taken the median and holds M items.
C38_Witness ==
    /\ turn.phase = "running"
    /\ turn.op = "insert"
    /\ turn.step = "split"
    /\ ~IsLeaf(nodes[turn.loop[1].id])
    /\ turn.loop[1].id = turn.loop[1].root
    /\ ItemCount(nodes[turn.loop[1].id]) = M
    /\ turn.loop[1].balance.tag = "Overflow"

\* -------------------------------------------- claims on the rebalance loop

\* The number of parent links from the node id up to the root.
DepthOf(id) == Len(PathUp(id)) - 1

\* The branches of a turn after which the loop is left.
StoppingSteps ==
    {"break", "rotate_left", "rotate_right", "root_split", "root_collapse",
     "root_release"}

\* A turn of rebalance stops the loop, on a node it leaves as it is (a
\* balanced node, or a root that underflows and holds an item), a
\* rotation, the split of the root or the collapse or release of an empty
\* root, or it splits or merges and goes on with the parent of the current
\* node, one level higher.
TurnStopsOrClimbs ==
    (turn.phase = "running" /\ turn' # turn) =>
        \/ /\ turn'.phase = "returned"
           /\ turn'.step \in StoppingSteps
           /\ turn'.step = "break" =>
                  \/ turn.loop[1].balance.tag = "Balanced"
                  \/ /\ nodes[turn.loop[1].id].parent = NoNode
                     /\ ItemCount(nodes[turn.loop[1].id]) > 0
        \/ /\ turn'.phase = "running"
           /\ turn'.step \in {"split", "merge"}
           /\ nodes[turn.loop[1].id].parent # NoNode
           /\ turn'.loop[1].id = nodes[turn.loop[1].id].parent
           /\ turn'.loop[1].id \in DOMAIN nodes'
           /\ DepthOf(turn'.loop[1].id) = DepthOf(turn.loop[1].id) - 1

\* While rebalance runs its next turn is there to take: it does not panic,
\* and it ends the loop or leaves the current node for another.
TurnPending ==
    turn.phase = "running" =>
        /\ ~RebalanceTurn([Loop EXCEPT !.events = {}]).panic
        /\ \/ RebalanceTurn([Loop EXCEPT !.events = {}]).done
           \/ RebalanceTurn([Loop EXCEPT !.events = {}]).id # turn.loop[1].id

\* C39: rebalance, entered on the leaf an insert or a remove has changed,
\* returns: while it runs its next turn can be taken, and each turn stops
\* the loop or is a split or a merge that moves to the parent of the
\* current node, one level nearer to the root, so that a level of the tree
\* sees at most one split or merge and the turns are no more than the
\* levels.
C39_RebalanceTerminates ==
    /\ [][TurnStopsOrClimbs]_vars
    /\ []TurnPending

\* A removal from a tree of three levels has merged at the leaves and at
\* the level above, one merge a level, and has returned on the collapse of
\* the root.
C39_Witness ==
    /\ turn.phase = "returned"
    /\ turn.op = "remove"
    /\ turn.step = "root_collapse"
    /\ turn.loop[1].events = {"merge", "root_collapse"}
    /\ ~panicked
    /\ root # NoNode
    /\ LeafDepths(nodes, root) = {1}
    /\ len = Len(Elements(nodes, root))

====
